---- MODULE Spec2Model ----
(***************************************************************************)
(* eth-validator-watcher: the slot-driven orchestration loop (_handler),   *)
(* the epoch windows and the missed-attestation and rewards probes.        *)
(*                                                                         *)
(* One loop iteration is one action.  The iteration threads a record `st`  *)
(* (the handler's locals, the process-wide metrics and the observation     *)
(* variables) through the statements of the loop body in source order; an  *)
(* exception sets st.raised and every later statement is skipped, as the   *)
(* body holds no try/except.  `log` lists the probes called in the         *)
(* iteration, in call order.                                               *)
(***************************************************************************)
EXTENDS Integers, Sequences, FiniteSets, TLC

\* ------------------------------------------------------------------ bounds
\* The last epoch the model lets the clock enter.
MaxEpoch == 3
\* The number of slots before genesis a run may start at.
PreGenesisSlots == 2
\* The number of validators the beacon knows.
MaxIdx == 2

\* ------------------------------------------------------- program constants
NB_SLOT_PER_EPOCH == 32
SLOT_FOR_MISSED_ATTESTATIONS_PROCESS == 16
SLOT_FOR_REWARDS_PROCESS == 16
\* mutant: the windows are built one epoch larger
WINDOW_SIZE_four == 3 + 1
\* LimitedDict(3)
WINDOW_SIZE == 3
\* Python's None where the code holds `int | None`
None == -1

MaxSlot == (MaxEpoch + 1) * NB_SLOT_PER_EPOCH - 1

Idx == 1..MaxIdx

\* The pubkey of the validator the chain gave index i (fixed by the chain).
PubkeyTable == <<"0xa1", "0xb2", "0xc3", "0xd4">>
PK(i) == PubkeyTable[i]

Range(seq) == {seq[k] : k \in DOMAIN seq}
Max(S) == CHOOSE x \in S : \A y \in S : y <= x
Min(S) == CHOOSE x \in S : \A y \in S : x <= y

RECURSIVE SortedSeq(_)
SortedSeq(S) == IF S = {} THEN <<>> ELSE <<Min(S)>> \o SortedSeq(S \ {Min(S)})

\* dict restricted to the keys in S
Restrict(f, S) == [k \in (DOMAIN f) \cap S |-> f[k]]

\* ---------------------------------------------------------------- models
StatusEnum == {"pending_initialized", "pending_queued", "active_ongoing",
    "active_exiting", "active_slashed", "exited_unslashed", "exited_slashed",
    "withdrawal_possible", "withdrawal_done"}

\* Validators.DataItem.Validator of index i under status s
Validator(i, s) == [pubkey |-> PK(i), effective_balance |-> 32,
    slashed |-> s \in {"active_slashed", "exited_slashed"}]

\* ------------------------------------------------------------ LimitedDict
\* d[key] = value, then the smallest keys are dropped until max_size are left
LimitedDictSet(d, key, value, max_size) ==
    LET d1 == [k \in (DOMAIN d) \cup {key} |-> IF k = key THEN value ELSE d[k]]
        keep == {k \in DOMAIN d1 : Cardinality({j \in DOMAIN d1 : j > k}) < max_size}
    IN  Restrict(d1, keep)

\* ---------------------------------------------------------------- state
VARIABLES
    slot,                   \* the slot the iterator yielded last
    idx,                    \* enumerate(): the number of iterations begun
    status,                 \* "running", "crashed" (exception left _handler), "bye"
    our_pubkeys,
    our_labels,
    our_active_idx2val,
    our_validators_indexes_that_missed_attestation,
    our_validators_indexes_that_missed_previous_attestation,
    our_epoch2active_idx2val,
    net_epoch2active_idx2val,
    last_missed_attestations_process_epoch,
    last_rewards_process_epoch,
    previous_epoch,
    last_processed_finalized_slot,
    potential_block,        \* whether the beacon served a block for `slot`
    is_our_validator,
    metrics,                \* the prometheus gauges and counters
    effects,                \* files touched, servers started, messages sent
    log,                    \* the probes called in the last iteration, in order
    raised,                 \* the call that raised in the last iteration, or "none"
    hist,                   \* observation: where the per-epoch steps ran
    world,                  \* the beacon's answers and the operator's files, per epoch
    relays,                 \* the Relays object (its urls) and what each relay answers
    relay_metrics,          \* bad_relay_count, the MEV-boost counter, the proposals gauge
    call                    \* a call of a relay-side function: its arguments, its outcome

vars == <<slot, idx, status, our_pubkeys, our_labels, our_active_idx2val,
    our_validators_indexes_that_missed_attestation,
    our_validators_indexes_that_missed_previous_attestation,
    our_epoch2active_idx2val, net_epoch2active_idx2val,
    last_missed_attestations_process_epoch, last_rewards_process_epoch,
    previous_epoch, last_processed_finalized_slot, potential_block,
    is_our_validator, metrics, effects, log, raised, hist, world,
    relays, relay_metrics, call>>

\* The handler's state as one record, threaded through the loop body.
St == [slot |-> slot, idx |-> idx, status |-> status,
    our_pubkeys |-> our_pubkeys, our_labels |-> our_labels,
    our_active_idx2val |-> our_active_idx2val,
    missed |-> our_validators_indexes_that_missed_attestation,
    missed_previous |-> our_validators_indexes_that_missed_previous_attestation,
    our_epoch2active_idx2val |-> our_epoch2active_idx2val,
    net_epoch2active_idx2val |-> net_epoch2active_idx2val,
    last_missed_attestations_process_epoch |-> last_missed_attestations_process_epoch,
    last_rewards_process_epoch |-> last_rewards_process_epoch,
    previous_epoch |-> previous_epoch,
    last_processed_finalized_slot |-> last_processed_finalized_slot,
    potential_block |-> potential_block, is_our_validator |-> is_our_validator,
    metrics |-> metrics, effects |-> effects, log |-> log, raised |-> raised,
    hist |-> hist]

Commit(s) ==
    /\ slot' = s.slot
    /\ idx' = s.idx
    /\ status' = s.status
    /\ our_pubkeys' = s.our_pubkeys
    /\ our_labels' = s.our_labels
    /\ our_active_idx2val' = s.our_active_idx2val
    /\ our_validators_indexes_that_missed_attestation' = s.missed
    /\ our_validators_indexes_that_missed_previous_attestation' = s.missed_previous
    /\ our_epoch2active_idx2val' = s.our_epoch2active_idx2val
    /\ net_epoch2active_idx2val' = s.net_epoch2active_idx2val
    /\ last_missed_attestations_process_epoch' = s.last_missed_attestations_process_epoch
    /\ last_rewards_process_epoch' = s.last_rewards_process_epoch
    /\ previous_epoch' = s.previous_epoch
    /\ last_processed_finalized_slot' = s.last_processed_finalized_slot
    /\ potential_block' = s.potential_block
    /\ is_our_validator' = s.is_our_validator
    /\ metrics' = s.metrics
    /\ effects' = s.effects
    /\ log' = s.log
    /\ raised' = s.raised
    /\ hist' = s.hist
    /\ UNCHANGED <<world, relays, relay_metrics, call>>

Epoch(s) == s \div NB_SLOT_PER_EPOCH
SlotInEpoch(s) == s % NB_SLOT_PER_EPOCH
\* The epoch whose pubkeys and labels files are on disk at a slot: the operator
\* edits the files for the next epoch during the last quarter of an epoch
FilesEpoch(slot_) ==
    IF SlotInEpoch(slot_) >= 3 * (NB_SLOT_PER_EPOCH \div 4)
    THEN Min({Epoch(slot_) + 1, MaxEpoch})
    ELSE Epoch(slot_)

\* a probe is called: it enters the log
Call(s, probe) == [s EXCEPT !.log = Append(@, probe)]
\* an exception leaves the statement at `site`
Raise(s, site) == [s EXCEPT !.raised = site]
Ok(s) == s.raised = "none"

\* ------------------------------------------------------ prometheus Counter
\* A labeled counter: None until constructed, then one series per label dict.
NoCounter == [created |-> FALSE, schema |-> {}, series |-> <<>>]
NewCounter(schema) == [created |-> TRUE, schema |-> schema, series |-> <<>>]
\* counter.labels(**l): the series of l, created at 0 when new
CounterLabels(c, l) ==
    [c EXCEPT !.series = [k \in (DOMAIN c.series) \cup {l} |->
        IF k \in DOMAIN c.series THEN c.series[k] ELSE 0]]
\* counter.labels(**l).inc(n)
CounterInc(c, l, n) ==
    LET c1 == CounterLabels(c, l)
    IN  [c1 EXCEPT !.series[l] = @ + n]
\* labels(**l) raises ValueError unless l's keys are the counter's label names
LabelsFit(c, l) == DOMAIN l = c.schema

\* The series of pks[1], pks[2], ... incremented in turn, as the probes' loops
\*     for pubkey in pubkeys: labels = our_labels[pubkey]; c.labels(**labels).inc()
\* do: our_labels[pubkey] raises KeyError, labels(**labels) ValueError, and the
\* increments made before stay.  done lists the pubkeys incremented.
RECURSIVE IncEach(_, _, _)
IncEach(c, labels_map, pks) ==
    IF pks = <<>> THEN [c |-> c, raised |-> "none", done |-> <<>>]
    ELSE IF Head(pks) \notin DOMAIN labels_map
        THEN [c |-> c, raised |-> "KeyError", done |-> <<>>]
    ELSE IF ~LabelsFit(c, labels_map[Head(pks)])
        THEN [c |-> c, raised |-> "ValueError", done |-> <<>>]
    ELSE LET r == IncEach(CounterInc(c, labels_map[Head(pks)], 1), labels_map, Tail(pks))
         IN  [r EXCEPT !.done = <<Head(pks)>> \o @]

\* The label dicts of a labels map, and the key sets random.choice may pick
LabelDicts(labels_map) == {labels_map[p] : p \in DOMAIN labels_map}
Schemas(labels_map) == {DOMAIN l : l \in LabelDicts(labels_map)}

\* mutant: a family is built anew at every boundary whose labels map is non-empty
InitFamily_rebuild(c, labels_map, schema) ==
    IF Cardinality(DOMAIN labels_map) = 0
    THEN [c |-> c, raised |-> "none"]
    ELSE IF \E l \in LabelDicts(labels_map) : DOMAIN l # schema
    THEN [c |-> NewCounter(schema), raised |-> "ValueError"]
    ELSE [c |-> [NewCounter(schema) EXCEPT
                    !.series = [l \in LabelDicts(labels_map) |-> 0]],
          raised |-> "none"]

\* init_*_per_validator_counters: a family is built once, when the labels map is
\* first non-empty; every label dict gets its series (ValueError if one has
\* other keys than the schema picked).
InitFamily(c, labels_map, schema) ==
    IF Cardinality(DOMAIN labels_map) = 0 \/ c.created
    THEN [c |-> c, raised |-> "none"]
    ELSE IF \E l \in LabelDicts(labels_map) : DOMAIN l # schema
    THEN [c |-> NewCounter(schema), raised |-> "ValueError"]
    ELSE [c |-> [NewCounter(schema) EXCEPT
                    !.series = [l \in LabelDicts(labels_map) |-> 0]],
          raised |-> "none"]

\* ----------------------------------------------------- the epoch boundary
\* mutants: the boundary is found only once a previous epoch is known; only
\* at the first iteration
\* mutant: every slot is taken for the first of an epoch
is_new_epoch_every_slot(prev, epoch) == TRUE
is_new_epoch_known_previous(prev, epoch) == prev # None /\ prev # epoch
is_new_epoch_first_only(prev, epoch) == prev = None
is_new_epoch(prev, epoch) == prev = None \/ prev # epoch

\* dict.get(key, {})
Get(d, key) == IF key \in DOMAIN d THEN d[key] ELSE <<>>
\* a | b
DictUnion(a, b) ==
    [k \in (DOMAIN a) \cup (DOMAIN b) |-> IF k \in DOMAIN b THEN b[k] ELSE a[k]]

\* beacon.get_status_to_index_to_validator(), from the chain's status of each index
StatusToIndexToValidator(chain) ==
    [s \in {chain[i] : i \in DOMAIN chain} |->
        [i \in {j \in DOMAIN chain : chain[j] = s} |-> Validator(i, s)]]

ActiveIdx2Val(status2idx2val) ==
    DictUnion(DictUnion(Get(status2idx2val, "active_ongoing"),
                        Get(status2idx2val, "active_exiting")),
              Get(status2idx2val, "active_slashed"))

\* mutant: the grouping by status is lost, every status lists every watched validator
OurStatus2Idx2Val_any_status(net_status2idx2val, pubkeys) ==
    LET all == UNION {{net_status2idx2val[s][j] : j \in DOMAIN net_status2idx2val[s]} :
                        s \in DOMAIN net_status2idx2val}
        index(v) == CHOOSE i \in Idx : PK(i) = v.pubkey
    IN  [s \in DOMAIN net_status2idx2val |->
            [i \in {index(v) : v \in {u \in all : u.pubkey \in pubkeys}} |->
                CHOOSE v \in all : v.pubkey = PK(i)]]
OurStatus2Idx2Val(net_status2idx2val, pubkeys) ==
    [s \in DOMAIN net_status2idx2val |->
        [i \in {j \in DOMAIN net_status2idx2val[s] :
                    net_status2idx2val[s][j].pubkey \in pubkeys}
            |-> net_status2idx2val[s][i]]]

\* lines 385-391: the per-validator gauge is cleared, then counts the active
\* watched validators by label dict; every watched validator's labels are read.
ActiveGauge(g, our_status2idx2val, labels_map) ==
    LET watched == UNION {DOMAIN our_status2idx2val[s] : s \in DOMAIN our_status2idx2val}
        statusOf(i) == CHOOSE s \in DOMAIN our_status2idx2val : i \in DOMAIN our_status2idx2val[s]
        active == {i \in watched :
            statusOf(i) \in {"active_ongoing", "active_exiting", "active_slashed"}}
        cleared == [g EXCEPT !.series = <<>>]
    IN  IF \E i \in watched : PK(i) \notin DOMAIN labels_map
        THEN [c |-> cleared, raised |-> "KeyError", done |-> <<>>]
        ELSE IncEach(cleared, labels_map, [k \in 1..Cardinality(active) |-> PK(SortedSeq(active)[k])])

\* mutant: the files are loaded before the invalid pubkey is reported
LoadWatchedSet_loads_first(s, raise_at) ==
    LET s1 == [Call(s, "epoch_boundary") EXCEPT !.hist.boundary_at = Append(@, s.slot)]
        s2 == [s1 EXCEPT !.our_pubkeys = world.pubkeys_file[FilesEpoch(s.slot)],
                         !.our_labels = world.labels_file[FilesEpoch(s.slot)]]
    IN  IF raise_at = "get_our_pubkeys" THEN Raise(s2, "get_our_pubkeys") ELSE s2

\* lines 308-312: the watched set and the labels are reloaded; an invalid pubkey
\* is a ValueError, re-raised as typer.BadParameter
LoadWatchedSet(s, raise_at) ==
    LET s1 == [Call(s, "epoch_boundary") EXCEPT !.hist.boundary_at = Append(@, s.slot)]
    IN  IF raise_at = "get_our_pubkeys" THEN Raise(s1, "get_our_pubkeys")
        ELSE [s1 EXCEPT !.our_pubkeys = world.pubkeys_file[FilesEpoch(s.slot)],
                        !.our_labels = world.labels_file[FilesEpoch(s.slot)]]

\* mutant: the families are initialised only when a pubkey is watched
InitCounters_when_watched(s, schema, gauge_schema) ==
    IF ~Ok(s) \/ s.our_pubkeys = {} THEN s ELSE
    LET m == InitFamily(s.metrics.missed_attestations_per_validator_count,
                        s.our_labels, schema)
        d == InitFamily(s.metrics.double_missed_attestations_per_validator_count,
                        s.our_labels, schema)
        s1 == [s EXCEPT !.metrics.missed_attestations_per_validator_count = m.c,
                        !.metrics.double_missed_attestations_per_validator_count = d.c]
        g == InitFamily(s.metrics.our_active_validators_per_validator_gauge,
                        s.our_labels, gauge_schema)
    IN  IF m.raised # "none"
        THEN Raise(s1, "init_missed_attestations_per_validator_counters")
        ELSE IF g.raised # "none"
        THEN Raise([s1 EXCEPT !.metrics.our_active_validators_per_validator_gauge = g.c],
                   "our_active_validators_per_validator_gauge")
        ELSE [s1 EXCEPT !.metrics.our_active_validators_per_validator_gauge = g.c]

\* lines 314-330: the per-validator families are initialised
InitCounters(s, schema, gauge_schema) ==
    IF ~Ok(s) THEN s ELSE
    LET m == InitFamily(s.metrics.missed_attestations_per_validator_count,
                        s.our_labels, schema)
        d == InitFamily(s.metrics.double_missed_attestations_per_validator_count,
                        s.our_labels, schema)
        s1 == [s EXCEPT !.metrics.missed_attestations_per_validator_count = m.c,
                        !.metrics.double_missed_attestations_per_validator_count = d.c]
        g == InitFamily(s.metrics.our_active_validators_per_validator_gauge,
                        s.our_labels, gauge_schema)
    IN  IF m.raised # "none"
        THEN Raise(s1, "init_missed_attestations_per_validator_counters")
        ELSE IF g.raised # "none"
        THEN Raise([s1 EXCEPT !.metrics.our_active_validators_per_validator_gauge = g.c],
                   "our_active_validators_per_validator_gauge")
        ELSE [s1 EXCEPT !.metrics.our_active_validators_per_validator_gauge = g.c]

\* lines 334-381: the beacon's listing is classified and the windows take the epoch
Classify(s, raise_at) ==
    IF ~Ok(s) THEN s ELSE
    IF raise_at = "get_status_to_index_to_validator"
    THEN Raise(s, "get_status_to_index_to_validator") ELSE
    LET epoch == Epoch(s.slot)
        net_status2idx2val == StatusToIndexToValidator(world.chain[epoch])
        net_active_idx2val == ActiveIdx2Val(net_status2idx2val)
        our_status2idx2val == OurStatus2Idx2Val(net_status2idx2val, s.our_pubkeys)
        our_active == ActiveIdx2Val(our_status2idx2val)
    IN  [s EXCEPT
            !.net_epoch2active_idx2val =
                LimitedDictSet(@, epoch, net_active_idx2val, WINDOW_SIZE),
            !.our_epoch2active_idx2val =
                LimitedDictSet(@, epoch, our_active, WINDOW_SIZE),
            !.our_active_idx2val = our_active,
            !.metrics.total_active_validators_count = Cardinality(DOMAIN net_active_idx2val),
            !.metrics.our_active_validators_count = Cardinality(DOMAIN our_active)]

\* lines 383-402: ExitedValidators, the per-validator gauge, SlashedValidators,
\* the entry queue, the spot price and the sync committee
EpochProbes(s, raise_at) ==
    IF ~Ok(s) THEN s ELSE
    IF raise_at = "exited_validators" THEN Raise(s, "exited_validators") ELSE
    LET our_status2idx2val ==
            OurStatus2Idx2Val(StatusToIndexToValidator(world.chain[Epoch(s.slot)]),
                              s.our_pubkeys)
        g == ActiveGauge(s.metrics.our_active_validators_per_validator_gauge,
                         our_status2idx2val, s.our_labels)
        s1 == IF Cardinality(DOMAIN s.our_labels) > 0
              THEN [s EXCEPT !.metrics.our_active_validators_per_validator_gauge = g.c]
              ELSE s
    IN  IF Cardinality(DOMAIN s.our_labels) > 0 /\ g.raised # "none"
        THEN Raise(s1, "our_active_validators_per_validator_gauge")
        ELSE IF raise_at = "epoch_probes" THEN Raise(s1, "epoch_probes")
        ELSE [s1 EXCEPT !.hist.boundary_done = Append(@, s.slot)]

\* lines 307-402
EpochBoundary(s, raise_at, schema, gauge_schema) ==
    EpochProbes(Classify(InitCounters(LoadWatchedSet(s, raise_at), schema, gauge_schema),
                         raise_at), raise_at)

\* ------------------------------------------------------ missed attestations
\* [i.pubkey for i in indexes]: the pubkeys of a set of indexes of a snapshot
PubkeysOf(index_to_validator, indexes) ==
    [k \in 1..Cardinality(indexes) |-> index_to_validator[SortedSeq(indexes)[k]].pubkey]

\* beacon.get_validators_liveness: the indexes among those asked that did not
\* attest in the epoch
DeadIndexes(epoch, validators_index) ==
    {i \in validators_index : epoch \in DOMAIN world.dead /\ i \in world.dead[epoch]}

\* the early returns of the three probes (missed_attestations.py 70, 141;
\* rewards.py 271)
\* mutant: epoch 0 is let through
MissedAttestationsDisabled_never(epoch) == epoch < 0
MissedAttestationsDisabled(epoch) == epoch < 1
DoubleMissedDisabled(epoch) == epoch < 2
RewardsDisabled(epoch) == epoch < 2

\* the epoch whose snapshot process_missed_attestations reads (73-77)
MissedSnapshotEpoch(window, epoch) ==
    IF epoch - 1 \in DOMAIN window THEN epoch - 1 ELSE epoch

\* missed_attestations.py 51-113; the handler assigns the returned set (416-420)
process_missed_attestations(s, raise_at) ==
    IF ~Ok(s) THEN s ELSE
    LET epoch == Epoch(s.slot)
        window == s.our_epoch2active_idx2val
        s0 == [Call(s, "process_missed_attestations") EXCEPT
                   !.hist.missed_at = Append(@, s.slot)]
    IN  IF MissedAttestationsDisabled(epoch) THEN [s0 EXCEPT !.missed = {}]
        ELSE IF epoch - 1 \notin DOMAIN window /\ epoch \notin DOMAIN window
        THEN Raise(s0, "process_missed_attestations.KeyError")
        ELSE
        LET index_to_validator == window[MissedSnapshotEpoch(window, epoch)]
            validators_index == DOMAIN index_to_validator
            s1 == [s0 EXCEPT !.hist.liveness_queries =
                                 Append(@, <<s.slot, epoch - 1, validators_index>>),
                             !.hist.snapshot_reads =
                                 Append(@, <<s.slot, "missed",
                                             MissedSnapshotEpoch(window, epoch),
                                             DOMAIN window>>)]
            dead_indexes == DeadIndexes(epoch - 1, validators_index)
            s2 == [s1 EXCEPT !.metrics.missed_attestations_count = Cardinality(dead_indexes)]
            c == s.metrics.missed_attestations_per_validator_count
            r == IncEach(c, s.our_labels, PubkeysOf(index_to_validator, dead_indexes))
            s3 == [s2 EXCEPT !.metrics.missed_attestations_per_validator_count = r.c,
                             !.hist.missed_incs = @ \o
                                 [k \in 1..Len(r.done) |-> <<r.done[k], epoch - 1>>]]
        IN  IF raise_at = "get_validators_liveness"
            THEN Raise(s1, "get_validators_liveness")
            ELSE IF Cardinality(dead_indexes) = 0 THEN [s2 EXCEPT !.missed = {}]
            ELSE IF c.created /\ Cardinality(DOMAIN s.our_labels) > 0
            THEN IF r.raised # "none"
                 THEN Raise(s3, IF r.raised = "KeyError"
                                THEN "process_missed_attestations.KeyError"
                                ELSE "process_missed_attestations.ValueError")
                 ELSE [s3 EXCEPT !.missed = dead_indexes]
            ELSE [s2 EXCEPT !.missed = dead_indexes]

\* missed_attestations.py 116-183, called with the set just returned and the
\* previous one (422-429)
process_double_missed_attestations(s) ==
    IF ~Ok(s) THEN s ELSE
    LET epoch == Epoch(s.slot)
        window == s.our_epoch2active_idx2val
        s0 == [Call(s, "process_double_missed_attestations") EXCEPT
                   !.hist.double_args = Append(@, <<epoch, s.missed, s.missed_previous>>)]
        double_dead_indexes == s.missed \cap s.missed_previous
        s1 == [s0 EXCEPT !.metrics.double_missed_attestations_count =
                             Cardinality(double_dead_indexes)]
        s2 == [s1 EXCEPT !.hist.double_raised = Append(@, <<epoch, double_dead_indexes>>),
                         !.effects.slack_messages = IF world.slack THEN @ + 1 ELSE @]
        c == s.metrics.double_missed_attestations_per_validator_count
        r == IncEach(c, s.our_labels, PubkeysOf(window[epoch - 1], double_dead_indexes))
        s3 == [s2 EXCEPT !.metrics.double_missed_attestations_per_validator_count = r.c]
    IN  IF DoubleMissedDisabled(epoch) THEN s0
        ELSE IF Cardinality(double_dead_indexes) = 0 THEN s1
        ELSE IF epoch - 1 \notin DOMAIN window
        THEN Raise(s1, "process_double_missed_attestations.KeyError")
        ELSE IF c.created /\ Cardinality(DOMAIN s.our_labels) > 0
        THEN IF r.raised # "none"
             THEN Raise(s3, IF r.raised = "KeyError"
                            THEN "process_double_missed_attestations.KeyError"
                            ELSE "process_double_missed_attestations.ValueError")
             ELSE s3
        ELSE s2

\* mutant: the epoch of the last run is not compared
should_process_missed_attestations_every_slot(slot_in_epoch, last_epoch, epoch) ==
    slot_in_epoch >= SLOT_FOR_MISSED_ATTESTATIONS_PROCESS
should_process_missed_attestations(slot_in_epoch, last_epoch, epoch) ==
    /\ slot_in_epoch >= SLOT_FOR_MISSED_ATTESTATIONS_PROCESS
    /\ (last_epoch = None \/ last_epoch # epoch)

\* lines 416-420: the handler assigns the set process_missed_attestations returns
AssignMissed(s, raise_at) ==
    LET m == process_missed_attestations(s, raise_at)
    IN  IF Ok(m)
        THEN [m EXCEPT !.hist.missed_returned = Append(@, <<Epoch(s.slot), m.missed>>)]
        ELSE m

\* mutant: the returned set is rotated into the previous one before the double
\* misses are looked for
MissedAttestations_rotates_first(s, raise_at) ==
    IF ~Ok(s) THEN s ELSE
    IF should_process_missed_attestations(SlotInEpoch(s.slot),
            s.last_missed_attestations_process_epoch, Epoch(s.slot))
    THEN LET m == AssignMissed(s, raise_at)
             s1 == process_double_missed_attestations([m EXCEPT !.missed_previous = m.missed])
         IN  IF Ok(s1)
             THEN [s1 EXCEPT !.last_missed_attestations_process_epoch = Epoch(s.slot)]
             ELSE s1
    ELSE s

\* lines 407-431
MissedAttestations(s, raise_at) ==
    IF ~Ok(s) THEN s ELSE
    IF should_process_missed_attestations(SlotInEpoch(s.slot),
            s.last_missed_attestations_process_epoch, Epoch(s.slot))
    THEN LET s1 == process_double_missed_attestations(AssignMissed(s, raise_at))
         IN  IF Ok(s1)
             THEN [s1 EXCEPT !.last_missed_attestations_process_epoch = Epoch(s.slot)]
             ELSE s1
    ELSE s

\* ------------------------------------------------------------------ rewards
\* mutant: a missing epoch - 2 falls back to the newest snapshot
RewardsSnapshotEpoch_newest(window, epoch) ==
    IF epoch - 2 \in DOMAIN window THEN epoch - 2 ELSE epoch
\* the epoch whose snapshot process_rewards reads: epoch - 2, else epoch - 1,
\* else epoch (276-284, 360-368)
RewardsSnapshotEpoch(window, epoch) ==
    IF epoch - 2 \in DOMAIN window THEN epoch - 2
    ELSE IF epoch - 1 \in DOMAIN window THEN epoch - 1
    ELSE epoch
RewardsSnapshot(window, epoch) == window[RewardsSnapshotEpoch(window, epoch)]

\* mutant: the previous epoch is asked for
RewardsEpoch_previous(epoch) == epoch - 1
\* the epoch whose rewards process_rewards asks the beacon for (289, 375)
RewardsEpoch(epoch) == epoch - 2

\* rewards.py 244-454: the two passes, each a get_rewards query followed by the
\* update of that pass's counters and gauges
process_rewards(s, raise_at) ==
    IF ~Ok(s) THEN s ELSE
    LET epoch == Epoch(s.slot)
        s0 == [Call(s, "process_rewards") EXCEPT !.hist.rewards_at = Append(@, s.slot)]
        net_index_to_validator == RewardsSnapshot(s.net_epoch2active_idx2val, epoch)
        our_index_to_validator == RewardsSnapshot(s.our_epoch2active_idx2val, epoch)
        s0n == [s0 EXCEPT !.hist.snapshot_reads =
                              Append(@, <<s.slot, "rewards_net",
                                  RewardsSnapshotEpoch(s.net_epoch2active_idx2val, epoch),
                                  DOMAIN s.net_epoch2active_idx2val>>)]
        s1 == [s0n EXCEPT !.hist.rewards_queries =
                              Append(@, <<s.slot, RewardsEpoch(epoch), "net">>)]
        s2 == [s1 EXCEPT !.metrics.net_rewards_updates = @ + 1]
        s2o == [s2 EXCEPT !.hist.snapshot_reads =
                              Append(@, <<s.slot, "rewards_our",
                                  RewardsSnapshotEpoch(s.our_epoch2active_idx2val, epoch),
                                  DOMAIN s.our_epoch2active_idx2val>>)]
        s3 == [s2o EXCEPT !.hist.rewards_queries =
                              Append(@, <<s.slot, RewardsEpoch(epoch), "our">>)]
        s4 == [s3 EXCEPT !.metrics.our_rewards_updates = @ + 1]
    IN  IF RewardsDisabled(epoch) THEN s0
        ELSE IF Cardinality(DOMAIN net_index_to_validator) = 0 THEN s0n
        ELSE IF raise_at = "get_rewards" THEN Raise(s1, "get_rewards")
        ELSE IF raise_at = "net_rewards" THEN Raise(s1, "net_rewards")
        ELSE IF Cardinality(DOMAIN our_index_to_validator) = 0 THEN s2o
        ELSE IF raise_at = "get_rewards_our" THEN Raise(s3, "get_rewards_our")
        ELSE IF raise_at = "our_rewards" THEN Raise(s3, "our_rewards")
        ELSE s4

should_process_rewards(slot_in_epoch, last_epoch, epoch) ==
    /\ slot_in_epoch >= SLOT_FOR_REWARDS_PROCESS
    /\ (last_epoch = None \/ last_epoch # epoch)

\* lines 433-449
Rewards(s, raise_at) ==
    IF ~Ok(s) THEN s ELSE
    IF should_process_rewards(SlotInEpoch(s.slot), s.last_rewards_process_epoch,
                              Epoch(s.slot))
    THEN LET s1 == process_rewards(s, raise_at)
         IN  IF Ok(s1) THEN [s1 EXCEPT !.last_rewards_process_epoch = Epoch(s.slot)]
             ELSE s1
    ELSE s

\* ------------------------------------------------------ the per-slot probes
\* A probe whose effects the model does not follow: it is called, and may raise.
Probe(s, name, raise_at) ==
    IF ~Ok(s) THEN s
    ELSE IF raise_at = name THEN Raise(Call(s, name), name)
    ELSE Call(s, name)

\* process_missed_blocks_finalized: catches up to the beacon's finalized head
\* and returns the cursor, which never moves back
process_missed_blocks_finalized(s, raise_at, finalized_head) ==
    LET s1 == Probe(s, "process_missed_blocks_finalized", raise_at)
    IN  IF ~Ok(s1) THEN s1
        ELSE [s1 EXCEPT !.last_processed_finalized_slot = Max({@, finalized_head})]

\* lines 457-460: the sleep to the block deadline, then the block fetch
get_potential_block(s, raise_at, block) ==
    LET s1 == Probe(Probe(s, "block_wait", raise_at), "get_potential_block", raise_at)
    IN  IF ~Ok(s1) THEN s1 ELSE [s1 EXCEPT !.potential_block = block]

\* lines 462-475
BlockProbes(s, raise_at) ==
    IF ~Ok(s) \/ ~s.potential_block THEN s
    ELSE Probe(Probe(s, "process_suboptimal_attestations", raise_at),
               "process_fee_recipients", raise_at)

\* process_missed_blocks_head returns whether the slot's proposer is watched
process_missed_blocks_head(s, raise_at, proposer_pubkey) ==
    LET s1 == Probe(s, "process_missed_blocks_head", raise_at)
    IN  IF ~Ok(s1) THEN s1
        ELSE [s1 EXCEPT !.is_our_validator = proposer_pubkey \in s.our_pubkeys]

\* mutant: Relay and BlockReward run for every produced block
RelayAndBlockReward_any_block(s, raise_at) ==
    IF ~Ok(s) \/ ~s.potential_block THEN s
    ELSE Probe(Probe(s, "relays.process", raise_at), "process_block_reward", raise_at)

\* lines 488-490
RelayAndBlockReward(s, raise_at) ==
    IF ~Ok(s) \/ ~(s.is_our_validator /\ s.potential_block) THEN s
    ELSE Probe(Probe(s, "relays.process", raise_at), "process_block_reward", raise_at)

\* mutant: the finalized catch-up is moved behind the head-miss probe
PerSlotProbes_finalized_late(s, raise_at, block, proposer_pubkey, finalized_head) ==
    LET a == Probe(s, "process_future_blocks_proposal", raise_at)
        c == BlockProbes(get_potential_block(a, raise_at, block), raise_at)
        d == Probe(c, "process_sync_committee_reward", raise_at)
        e == process_missed_blocks_head(d, raise_at, proposer_pubkey)
        b == process_missed_blocks_finalized(e, raise_at, finalized_head)
    IN  RelayAndBlockReward(b, raise_at)

\* lines 451-490
PerSlotProbes(s, raise_at, block, proposer_pubkey, finalized_head) ==
    LET a == Probe(s, "process_future_blocks_proposal", raise_at)
        b == process_missed_blocks_finalized(a, raise_at, finalized_head)
        c == BlockProbes(get_potential_block(b, raise_at, block), raise_at)
        d == Probe(c, "process_sync_committee_reward", raise_at)
        e == process_missed_blocks_head(d, raise_at, proposer_pubkey)
    IN  RelayAndBlockReward(e, raise_at)

\* mutant: the missed set is not carried over to the next iteration
EndOfIteration_no_rotation(s) ==
    IF ~Ok(s) THEN s ELSE
    [s EXCEPT !.previous_epoch = Epoch(s.slot),
              !.effects.liveness_file_touches =
                  IF world.liveness_file THEN @ + 1 ELSE @,
              !.effects.http_server_starts = IF s.idx = 0 THEN @ + 1 ELSE @]

\* lines 492-505
EndOfIteration(s) ==
    IF ~Ok(s) THEN s ELSE
    [s EXCEPT !.missed_previous = s.missed,
              !.previous_epoch = Epoch(s.slot),
              !.effects.liveness_file_touches =
                  IF world.liveness_file THEN @ + 1 ELSE @,
              !.effects.http_server_starts = IF s.idx = 0 THEN @ + 1 ELSE @]

\* mutant: the finalized cursor starts at genesis instead of the first slot
LoopBody_cursor_from_genesis(s, in) ==
    LET epoch == Epoch(s.slot)
        s1 == [s EXCEPT !.last_processed_finalized_slot = IF @ = None THEN 0 ELSE @,
                        !.hist.first_slot = IF @ = None THEN s.slot ELSE @]
        s2 == IF is_new_epoch(s.previous_epoch, epoch)
              THEN EpochBoundary(s1, in.raise_at, in.schema, in.gauge_schema)
              ELSE s1
        s3 == Rewards(MissedAttestations(s2, in.raise_at), in.raise_at)
    IN  EndOfIteration(PerSlotProbes(s3, in.raise_at, in.block, in.proposer_pubkey,
                                     in.finalized_head))

\* lines 296-505: the body of the loop for a slot >= 0
LoopBody(s, in) ==
    LET epoch == Epoch(s.slot)
        s1 == [s EXCEPT !.last_processed_finalized_slot = IF @ = None THEN s.slot ELSE @,
                        !.hist.first_slot = IF @ = None THEN s.slot ELSE @]
        s2 == IF is_new_epoch(s.previous_epoch, epoch)
              THEN EpochBoundary(s1, in.raise_at, in.schema, in.gauge_schema)
              ELSE s1
        s3 == Rewards(MissedAttestations(s2, in.raise_at), in.raise_at)
    IN  EndOfIteration(PerSlotProbes(s3, in.raise_at, in.block, in.proposer_pubkey,
                                     in.finalized_head))

\* ------------------------------------------------------------------ relays
RELAY_KEY == "mev_relay"
\* RELAY_MAPPING: the well-known relay URLs and their names (two of the six)
RELAY_MAPPING ==
    ("relay.ultrasound.money" :> "ultra sound") @@ ("boost-relay.flashbots.net" :> "flashbots")
Gwei == 10 ^ 9

\* What a relay answers to proposer_payload_delivered?slot=...: no record, one
\* record, several records, or errors until the adapter's retries are used up.
NoPayload == [kind |-> "none", proposer_pubkey |-> "", value |-> 0]
OnePayload(pubkey, value) == [kind |-> "one", proposer_pubkey |-> pubkey, value |-> value]
ManyPayloads == [kind |-> "many", proposer_pubkey |-> "", value |-> 0]
PayloadRetryError == [kind |-> "RetryError", proposer_pubkey |-> "", value |-> 0]

\* mutant: the assertion on the number of records is dropped
PayloadRaises_no_assert(answer) ==
    CASE answer.kind = "RetryError" -> "RetryError"
      [] OTHER -> "none"
\* __is_proposer_payload_delivered / __proposer_payload_delivered (149-224): the
\* exception that leaves the helper for a relay's answer.  The helper catches
\* ConnectionError alone; RetryError and the AssertionError of `len(...) <= 1`
\* leave it.
PayloadRaises(answer) ==
    CASE answer.kind = "RetryError" -> "RetryError"
      [] answer.kind = "many" -> "AssertionError"
      [] OTHER -> "none"

\* mutant: the first relay alone is asked
AnyDelivered_first_only(urls, requests) ==
    IF urls = <<>> THEN [value |-> FALSE, raised |-> "none", requests |-> requests]
    ELSE LET answer == relays.payload_delivered[Head(urls)]
         IN  [value |-> answer.kind = "one", raised |-> PayloadRaises(answer),
              requests |-> Append(requests, Head(urls))]

\* lines 86-91: any(...) over a generator asks the relays in turn and stops at
\* the first one that delivered
RECURSIVE AnyDelivered(_, _)
AnyDelivered(urls, requests) ==
    IF urls = <<>> THEN [value |-> FALSE, raised |-> "none", requests |-> requests]
    ELSE LET answer == relays.payload_delivered[Head(urls)]
             asked == Append(requests, Head(urls))
         IN  IF PayloadRaises(answer) # "none"
             THEN [value |-> FALSE, raised |-> PayloadRaises(answer), requests |-> asked]
             ELSE IF answer.kind = "one"
             THEN [value |-> TRUE, raised |-> "none", requests |-> asked]
             ELSE AnyDelivered(Tail(urls), asked)

\* labels_with_relay = labels.copy(); labels_with_relay[RELAY_KEY] = relay
WithRelay(labels, relay) ==
    [k \in (DOMAIN labels) \cup {RELAY_KEY} |-> IF k = RELAY_KEY THEN relay ELSE labels[k]]

\* lines 98-107: every relay is asked; each payload found increments the
\* MEV-boost counter of the proposer's labels and that relay
RECURSIVE EachDelivered(_, _, _)
EachDelivered(urls, labels_map, acc) ==
    IF urls = <<>> THEN acc
    ELSE LET relay_url == Head(urls)
             payload == relays.payload_delivered[relay_url]
             asked == [acc EXCEPT !.requests = Append(@, relay_url)]
             known == [asked EXCEPT !.known_builder = TRUE]
         IN  IF PayloadRaises(payload) # "none"
             THEN [asked EXCEPT !.raised = PayloadRaises(payload)]
             ELSE IF payload.kind = "none"
             THEN EachDelivered(Tail(urls), labels_map, asked)
             ELSE IF payload.proposer_pubkey \notin DOMAIN labels_map
             THEN [known EXCEPT !.raised = "KeyError"]
             ELSE IF relay_url \notin DOMAIN RELAY_MAPPING
             THEN [known EXCEPT !.raised = "KeyError"]
             ELSE LET labels_with_relay ==
                          WithRelay(labels_map[payload.proposer_pubkey],
                                    RELAY_MAPPING[relay_url])
                  IN  IF ~acc.counter.created
                      THEN [known EXCEPT !.raised = "AttributeError"]
                      ELSE IF ~LabelsFit(acc.counter, labels_with_relay)
                      THEN [known EXCEPT !.raised = "ValueError"]
                      ELSE EachDelivered(Tail(urls), labels_map,
                               [known EXCEPT !.counter =
                                   CounterInc(@, labels_with_relay, payload.value \div Gwei)])

UnknownBuilder == "Block proposed with unknown builder"

\* mutant: with labels, a block no relay delivered is not counted
Relays_process_labelled_never_unknown(slot_, labels_map, m) ==
    LET quiet == [metrics |-> m, raised |-> "none", printed |-> <<>>, requests |-> <<>>]
        any == AnyDelivered(relays.urls, <<>>)
        r == EachDelivered(relays.urls, labels_map,
                 [counter |-> m.our_mev_boost_reward_per_validator_count,
                  known_builder |-> FALSE, raised |-> "none", requests |-> <<>>])
    IN  IF Len(relays.urls) = 0 THEN quiet
        ELSE IF Cardinality(DOMAIN labels_map) = 0
        THEN IF any.raised # "none"
             THEN [quiet EXCEPT !.raised = any.raised, !.requests = any.requests]
             ELSE IF ~any.value
             THEN [metrics |-> [m EXCEPT !.bad_relay_count = @ + 1], raised |-> "none",
                   printed |-> <<UnknownBuilder>>, requests |-> any.requests]
             ELSE [quiet EXCEPT !.requests = any.requests]
        ELSE [metrics |-> [m EXCEPT !.our_mev_boost_reward_per_validator_count = r.counter],
              raised |-> r.raised, printed |-> <<>>, requests |-> r.requests]

\* Relays.process (76-112), on the metrics m: the metrics it leaves, the
\* exception that left it, what it printed and the relays it asked
Relays_process(slot_, labels_map, m) ==
    LET urls == relays.urls
        quiet == [metrics |-> m, raised |-> "none", printed |-> <<>>, requests |-> <<>>]
        unknown(r) == [metrics |-> [m EXCEPT !.bad_relay_count = @ + 1],
                       raised |-> "none", printed |-> <<UnknownBuilder>>,
                       requests |-> r]
    IN  IF Len(urls) = 0 THEN quiet
        ELSE IF Cardinality(DOMAIN labels_map) = 0
        THEN LET any == AnyDelivered(urls, <<>>)
             IN  IF any.raised # "none"
                 THEN [quiet EXCEPT !.raised = any.raised, !.requests = any.requests]
                 ELSE IF ~any.value THEN unknown(any.requests)
                 ELSE [quiet EXCEPT !.requests = any.requests]
        ELSE LET r == EachDelivered(urls, labels_map,
                          [counter |-> m.our_mev_boost_reward_per_validator_count,
                           known_builder |-> FALSE, raised |-> "none", requests |-> <<>>])
                 counted == [m EXCEPT !.our_mev_boost_reward_per_validator_count = r.counter]
             IN  IF r.raised # "none"
                 THEN [metrics |-> counted, raised |-> r.raised, printed |-> <<>>,
                       requests |-> r.requests]
                 ELSE IF ~r.known_builder
                 THEN [unknown(r.requests) EXCEPT !.metrics.our_mev_boost_reward_per_validator_count = r.counter]
                 ELSE [metrics |-> counted, raised |-> "none", printed |-> <<>>,
                       requests |-> r.requests]

MAX_TRIALS == 5
RequestHelpers == {"__is_proposer_payload_delivered", "__proposer_payload_delivered",
    "__builder_validators"}

\* mutant: one more retry is made before the ConnectionError is let through
RECURSIVE RequestWithRetry_one_more(_, _)
RequestWithRetry_one_more(connection_errors, trial_count) ==
    IF connection_errors[trial_count + 1]
    THEN IF trial_count > MAX_TRIALS
         THEN [attempts |-> trial_count + 1, raised |-> "ConnectionError"]
         ELSE RequestWithRetry_one_more(connection_errors, trial_count + 1)
    ELSE [attempts |-> trial_count + 1, raised |-> "none"]

\* The try/except that opens each of the three request helpers (162-175,
\* 199-212, 237-249), entered with trial_count: self.__http.get is called; a
\* ConnectionError is re-raised once trial_count >= MAX_TRIALS, and otherwise
\* the helper sleeps and calls itself with trial_count + 1.
\* connection_errors[n] tells whether the n-th call of get raises
\* ConnectionError; attempts is the number of calls of get made.
RECURSIVE RequestWithRetry(_, _)
RequestWithRetry(connection_errors, trial_count) ==
    IF connection_errors[trial_count + 1]
    THEN IF trial_count >= MAX_TRIALS
         THEN [attempts |-> trial_count + 1, raised |-> "ConnectionError"]
         ELSE RequestWithRetry(connection_errors, trial_count + 1)
    ELSE [attempts |-> trial_count + 1, raised |-> "none"]

\* ProposerDuties.Data
Duty(slot_, pubkey) == [slot |-> slot_, pubkey |-> pubkey]
\* What a relay answers to /relay/v1/builder/validators: a list of entries
\* (slot, pubkey), or errors until the adapter's retries are used up.
ValidatorsList(entries) == [kind |-> "list", entries |-> entries]
ValidatorsRetryError == [kind |-> "RetryError", entries |-> {}]

\* lines 128-132: registrations[item.slot] = False; pubkeys[item.slot] = item.pubkey
SlotsOf(slot_proposals) == {slot_proposals[k].slot : k \in DOMAIN slot_proposals}
PubkeyAt(slot_proposals, slot_) ==
    slot_proposals[Max({k \in DOMAIN slot_proposals : slot_proposals[k].slot = slot_})].pubkey

\* lines 133-142: each relay is asked once; a RetryError skips the relay
RECURSIVE AskRelays(_, _, _)
AskRelays(urls, slot_proposals, acc) ==
    IF urls = <<>> THEN acc
    ELSE LET relay_url == Head(urls)
             relay_data == relays.builder_validators[relay_url]
             asked == [acc EXCEPT !.requests = Append(@, relay_url)]
         IN  IF relay_data.kind = "RetryError"
             THEN AskRelays(Tail(urls), slot_proposals,
                      [asked EXCEPT !.printed = Append(@, <<"Cannot contact relay", relay_url>>)])
             ELSE AskRelays(Tail(urls), slot_proposals,
                      [asked EXCEPT !.registered = @ \cup
                          {item[1] : item \in {i \in relay_data.entries :
                              /\ i[1] \in SlotsOf(slot_proposals)
                              /\ i[2] = PubkeyAt(slot_proposals, i[1])}}])

\* mutant: a duty counts as registered as soon as a relay lists its slot
check_validator_registration_for_slots_any_pubkey(slot_proposals) ==
    LET listed == UNION {{i[1] : i \in relays.builder_validators[relays.urls[k]].entries} :
                            k \in DOMAIN relays.urls}
    IN  [ret |-> SelectSeq(slot_proposals, LAMBDA item : item.slot \notin listed),
         raised |-> "none", printed |-> <<>>,
         requests |-> IF Len(slot_proposals) = 0 THEN <<>> ELSE relays.urls]

\* Relays.check_validator_registration_for_slots (114-147): the list returned,
\* what was printed and the relays asked
check_validator_registration_for_slots(slot_proposals) ==
    IF Len(slot_proposals) = 0
    THEN [ret |-> <<>>, raised |-> "none", printed |-> <<>>, requests |-> <<>>]
    ELSE LET r == AskRelays(relays.urls, slot_proposals,
                      [registered |-> {}, printed |-> <<>>, requests |-> <<>>])
         IN  [ret |-> SelectSeq(slot_proposals, LAMBDA item : item.slot \notin r.registered),
              raised |-> "none", printed |-> r.printed, requests |-> r.requests]

\* The call relays.check_validator_registration_for_slots(*args): the method
\* takes slot_proposals alone (114-117), any other number of positional
\* arguments is a TypeError raised before its body runs
CallCheckRegistration(args) ==
    IF Len(args) # 1
    THEN [ret |-> <<>>, raised |-> "TypeError", printed |-> <<>>, requests |-> <<>>]
    ELSE check_validator_registration_for_slots(args[1])

NotRegistered == "is not registered to any MEV relay"
GoingToPropose == "is going to propose a block"

\* mutant: the duties counted are not filtered by slot
process_future_blocks_proposal_any_slot(slot_, new_epoch, pubkeys, labels_map, duties_current_epoch, duties_next_epoch, m) ==
    LET filtered == SelectSeq(duties_current_epoch \o duties_next_epoch,
                        LAMBDA item : item.pubkey \in pubkeys)
    IN  [ret |-> Len(filtered),
         metrics |-> [m EXCEPT !.future_block_proposals_count = Len(filtered)],
         raised |-> "none", printed |-> <<>>, requests |-> <<>>]

\* process_future_blocks_proposal (next_blocks_proposal.py 19-73)
process_future_blocks_proposal(slot_, new_epoch, pubkeys, labels_map, duties_current_epoch, duties_next_epoch, m) ==
    LET concatenated_data == duties_current_epoch \o duties_next_epoch
        filtered == SelectSeq(concatenated_data,
                        LAMBDA item : item.pubkey \in pubkeys /\ item.slot >= slot_)
        m1 == [m EXCEPT !.future_block_proposals_count = Len(filtered)]
        announced == IF new_epoch
                     THEN [k \in DOMAIN filtered |->
                              <<GoingToPropose, filtered[k].pubkey, filtered[k].slot>>]
                     ELSE <<>>
        filtered_in_current_epoch ==
            SelectSeq(duties_current_epoch, LAMBDA item : item.pubkey \in pubkeys)
        r == CallCheckRegistration(<<filtered_in_current_epoch, labels_map>>)
    IN  IF new_epoch /\ Len(filtered) > 0 /\ Cardinality(DOMAIN labels_map) > 0
           /\ Len(filtered_in_current_epoch) > 0
        THEN IF r.raised # "none"
             THEN [ret |-> None, metrics |-> m1, raised |-> r.raised,
                   printed |-> announced \o r.printed, requests |-> r.requests]
             ELSE [ret |-> Len(filtered), metrics |-> m1, raised |-> "none",
                   printed |-> announced \o r.printed \o
                       [k \in DOMAIN r.ret |-> <<NotRegistered, r.ret[k].pubkey, r.ret[k].slot>>],
                   requests |-> r.requests]
        ELSE [ret |-> Len(filtered), metrics |-> m1, raised |-> "none",
              printed |-> announced, requests |-> <<>>]

\* ---------------------------------------------------- rewards, metric by metric
\* A metric of rewards.py is named by its scope, family and kind:
\* metric_net_actual_pos_sources_count is <<"net", "actual_pos", "sources">>,
\* our_actual_neg_targets_per_validator_count is
\* <<"our_per_validator", "actual_neg", "targets">>.  NoMetric is the None passed
\* where a family has no negative counter.
NoMetric == <<>>
RewardKinds == <<"sources", "targets", "heads">>

RECURSIVE sum(_)
sum(values) == IF values = <<>> THEN 0 ELSE Head(values) + sum(Tail(values))
abs(value) == IF value >= 0 THEN value ELSE 0 - value

\* counter.inc(amount) and counter.labels(**labels).inc(amount): the update is
\* appended to the updates made by the call
CounterUpdate(acc, metric, labels, amount) ==
    [acc EXCEPT !.updates = Append(@, [metric |-> metric, op |-> "inc",
                                       labels |-> labels, amount |-> amount])]
\* gauge.set(1 - ideal / total), kept as the pair <<suboptimal, total>>
GaugeSet(acc, metric, suboptimal, total) ==
    [acc EXCEPT !.updates = Append(@, [metric |-> metric, op |-> "set",
                                       labels |-> <<>>, amount |-> <<suboptimal, total>>])]

\* _process_validator (457-470)
process_validator(pubkey, ideal_reward, actual_reward) ==
    [pubkey |-> pubkey, ideal |-> ideal_reward, actual |-> actual_reward,
     are_ideal |-> [k \in 1..3 |-> actual_reward[k] = ideal_reward[k]]]

\* 291-299, 377-385: the two dicts built from a rewards response are its rows
\* keyed by effective balance and by validator index
\* 301-310: the network pass keeps the validators that have both rows
NetItems(index_to_validator, data) ==
    LET kept == SelectSeq(SortedSeq(DOMAIN index_to_validator), LAMBDA index :
                    /\ index \in DOMAIN data.total_rewards
                    /\ index_to_validator[index].effective_balance \in DOMAIN data.ideal_rewards)
    IN  [raised |-> "none",
         items |-> [k \in DOMAIN kept |->
                       process_validator(index_to_validator[kept[k]].pubkey,
                           data.ideal_rewards[index_to_validator[kept[k]].effective_balance],
                           data.total_rewards[kept[k]])]]

\* 387-394: the pass of the watched validators looks every validator up
OurItems(index_to_validator, data) ==
    LET indexes == SortedSeq(DOMAIN index_to_validator)
    IN  IF \E index \in DOMAIN index_to_validator :
               \/ index_to_validator[index].effective_balance \notin DOMAIN data.ideal_rewards
               \/ index \notin DOMAIN data.total_rewards
        THEN [raised |-> "KeyError", items |-> <<>>]
        ELSE [raised |-> "none",
              items |-> [k \in DOMAIN indexes |->
                            process_validator(index_to_validator[indexes[k]].pubkey,
                                data.ideal_rewards[index_to_validator[indexes[k]].effective_balance],
                                data.total_rewards[indexes[k]])]]

\* mutant: the aggregate actual totals go to the positive counters as they are
PosOrNeg_signed(acc, scope, kind, total) ==
    CounterUpdate(acc, <<scope, "actual_pos", kind>>, <<>>, total)

\* 336-346, 416-426: (pos if total >= 0 else neg).inc(abs(total))
PosOrNeg(acc, scope, kind, total) ==
    CounterUpdate(acc, <<scope, IF total >= 0 THEN "actual_pos" ELSE "actual_neg", kind>>,
                  <<>>, abs(total))

\* 312-356, 396-436: the unpacking of zip(*items), which is a ValueError when
\* there is no item, then the aggregate counters and the suboptimal-rate gauges
Aggregates(acc, scope, items) ==
    LET ideal(k) == sum([j \in DOMAIN items |-> items[j].ideal[k]])
        actual(k) == sum([j \in DOMAIN items |-> items[j].actual[k]])
        suboptimal(k) == Cardinality({j \in DOMAIN items : ~items[j].are_ideal[k]})
        a1 == CounterUpdate(acc, <<scope, "ideal", "sources">>, <<>>, ideal(1))
        a2 == CounterUpdate(a1, <<scope, "ideal", "targets">>, <<>>, ideal(2))
        a3 == CounterUpdate(a2, <<scope, "ideal", "heads">>, <<>>, ideal(3))
        a4 == PosOrNeg(a3, scope, "sources", actual(1))
        a5 == PosOrNeg(a4, scope, "targets", actual(2))
        a6 == CounterUpdate(a5, <<scope, "actual", "heads">>, <<>>, actual(3))
        a7 == GaugeSet(a6, <<scope, "suboptimal_rate", "sources">>, suboptimal(1), Len(items))
        a8 == GaugeSet(a7, <<scope, "suboptimal_rate", "targets">>, suboptimal(2), Len(items))
    IN  IF Len(items) = 0
        THEN [acc EXCEPT !.raised = "ValueError"]
        ELSE GaugeSet(a8, <<scope, "suboptimal_rate", "heads">>, suboptimal(3), Len(items))

\* _validator_counters_update (184-195) and, with values the sums of the three
\* rewards, _validator_summary_counters_update (198-211); built tells whether
\* the per-validator families exist (counter_pos is not None)
RECURSIVE validator_counters_update(_, _, _, _, _, _, _)
validator_counters_update(acc, built, counter_pos, counter_neg, pub_keys, values, labels_dict) ==
    IF acc.raised # "none" \/ ~built \/ Cardinality(DOMAIN labels_dict) = 0 \/ pub_keys = <<>>
    THEN acc
    ELSE IF Head(pub_keys) \notin DOMAIN labels_dict
    THEN [acc EXCEPT !.raised = "KeyError"]
    ELSE IF Head(values) < 0 /\ counter_neg = NoMetric
    THEN [acc EXCEPT !.raised = "AttributeError"]
    ELSE validator_counters_update(
             CounterUpdate(acc, IF Head(values) >= 0 THEN counter_pos ELSE counter_neg,
                           labels_dict[Head(pub_keys)], abs(Head(values))),
             built, counter_pos, counter_neg, Tail(pub_keys), Tail(values), labels_dict)

\* 438-450
PerValidator(acc, built, items, labels_dict) ==
    LET pubkeys == [j \in DOMAIN items |-> items[j].pubkey]
        ideal(k) == [j \in DOMAIN items |-> items[j].ideal[k]]
        actual(k) == [j \in DOMAIN items |-> items[j].actual[k]]
        pv == "our_per_validator"
        update(a, pos, neg, values) ==
            validator_counters_update(a, built, pos, neg, pubkeys, values, labels_dict)
        a1 == update(acc, <<pv, "ideal", "sources">>, NoMetric, ideal(1))
        a2 == update(a1, <<pv, "ideal", "targets">>, NoMetric, ideal(2))
        a3 == update(a2, <<pv, "ideal", "heads">>, NoMetric, ideal(3))
        a4 == update(a3, <<pv, "actual_pos", "sources">>, <<pv, "actual_neg", "sources">>, actual(1))
        a5 == update(a4, <<pv, "actual_pos", "targets">>, <<pv, "actual_neg", "targets">>, actual(2))
        a6 == update(a5, <<pv, "actual", "heads">>, NoMetric, actual(3))
        a7 == update(a6, <<pv, "ideal", "attestations_reward">>, NoMetric,
                     [j \in DOMAIN items |-> sum(items[j].ideal)])
    IN  update(a7, <<pv, "actual_pos", "attestations_reward">>,
               <<pv, "actual_neg", "attestations_reward">>,
               [j \in DOMAIN items |-> sum(items[j].actual)])

\* _log (214-241), called at 452-454: one line per kind that some validator
\* missed its ideal reward of (the line names the first five of them)
Logs(acc, items, epoch) ==
    LET not_perfect(k) == {items[j].pubkey : j \in {i \in DOMAIN items : ~items[i].are_ideal[k]}}
        lines == [k \in 1..3 |-> <<"had not ideal rewards on", RewardKinds[k],
                                  not_perfect(k), epoch - 2>>]
    IN  IF acc.raised # "none" THEN acc
        ELSE [acc EXCEPT !.printed = @ \o SelectSeq(lines, LAMBDA line : line[3] # {})]

NoUpdates == [updates |-> <<>>, raised |-> "none", printed |-> <<>>, requests |-> <<>>]

\* process_rewards (244-454) with the snapshots picked at 276-284 and 360-368
\* and the answers of the beacon to the two get_rewards queries
process_rewards_call(epoch, net_index_to_validator, our_index_to_validator, net_data, our_data, labels_map, built) ==
    LET q1 == [NoUpdates EXCEPT !.requests = <<<<"get_rewards", epoch - 2, "net">>>>]
        net == NetItems(net_index_to_validator, net_data)
        a1 == Aggregates(q1, "net", net.items)
        q2 == [a1 EXCEPT !.requests = Append(@, <<"get_rewards", epoch - 2,
                                                 DOMAIN our_index_to_validator>>)]
        our == OurItems(our_index_to_validator, our_data)
        a2 == Aggregates(q2, "our", our.items)
    IN  IF epoch < 2 THEN NoUpdates
        ELSE IF Cardinality(DOMAIN net_index_to_validator) = 0 THEN NoUpdates
        ELSE IF a1.raised # "none" THEN a1
        ELSE IF Cardinality(DOMAIN our_index_to_validator) = 0 THEN a1
        ELSE IF our.raised # "none" THEN [q2 EXCEPT !.raised = our.raised]
        ELSE IF a2.raised # "none" THEN a2
        ELSE Logs(PerValidator(a2, built, our.items, labels_map), our.items, epoch)

\* ------------------------------------------------------------ environment
Epochs == 0..MaxEpoch
Always(v) == [e \in Epochs |-> v]
\* v0 before epoch e0, v1 from e0 on
From(e0, v0, v1) == [e \in Epochs |-> IF e < e0 THEN v0 ELSE v1]

AllPubkeys == {PK(i) : i \in Idx}
AllActive == [i \in Idx |-> "active_ongoing"]
LabelsOf(pubkeys) ==
    [p \in pubkeys |-> [operator |-> IF p = PK(1) THEN "a" ELSE "b"]]

\* labels files with a second label key, and with label dicts of unlike keys
LabelsWithRegion(pubkeys) ==
    [p \in pubkeys |-> [operator |-> IF p = PK(1) THEN "a" ELSE "b", region |-> "eu"]]
MixedLabels(pubkeys) ==
    [p \in pubkeys |-> IF p = PK(1) THEN LabelsOf({p})[p] ELSE LabelsWithRegion({p})[p]]

World(pubkeys_file, labels_file, chain, dead, slack) ==
    [pubkeys_file |-> pubkeys_file, labels_file |-> labels_file, chain |-> chain,
     dead |-> dead, slack |-> slack, liveness_file |-> TRUE]

\* What the beacon and the operator's files hold, epoch by epoch.
Worlds == {
    \* every validator watched, labelled and active; validator 1 never attests
    World(Always(AllPubkeys), Always(LabelsOf(AllPubkeys)), Always(AllActive),
          Always({1}), TRUE),
    \* no labels file; every validator misses every epoch
    World(Always(AllPubkeys), Always(<<>>), Always(AllActive), Always(Idx), FALSE),
    \* the last validator is activated at epoch 2; it attests only in epoch 0
    World(Always(AllPubkeys), Always(LabelsOf(AllPubkeys)),
          From(2, [AllActive EXCEPT ![MaxIdx] = "pending_queued"], AllActive),
          From(1, {1}, Idx), TRUE),
    \* nothing is watched
    World(Always({}), Always(<<>>), Always(AllActive), Always({}), FALSE),
    \* the last validator leaves the watched set and the labels file at epoch 2
    World(From(2, AllPubkeys, {PK(1)}), From(2, LabelsOf(AllPubkeys), LabelsOf({PK(1)})),
          Always(AllActive), From(2, Idx, {}), FALSE),
    \* no validator is active yet; no liveness file is configured
    [World(Always(AllPubkeys), Always(LabelsOf(AllPubkeys)),
           Always([i \in Idx |-> "pending_queued"]), Always({}), FALSE)
        EXCEPT !.liveness_file = FALSE],
    \* the labels file gets a second label key at epoch 2
    World(Always(AllPubkeys), From(2, LabelsOf(AllPubkeys), LabelsWithRegion(AllPubkeys)),
          Always(AllActive), Always({1}), FALSE),
    \* the label dicts of the labels file do not have the same keys
    World(Always(AllPubkeys), Always(MixedLabels(AllPubkeys)), Always(AllActive),
          Always({}), FALSE),
    \* nothing is watched, and the labels file is filled
    World(Always({}), Always(LabelsOf(AllPubkeys)), Always(AllActive), Always({}), FALSE),
    \* the labels file is empty in epoch 0, filled in epochs 1 and 2 and empty
    \* again from epoch 3 on, when the last validator has exited
    World(Always(AllPubkeys),
          [e \in Epochs |-> IF e \in {1, 2} THEN LabelsOf(AllPubkeys) ELSE <<>>],
          From(3, AllActive, [AllActive EXCEPT ![MaxIdx] = "exited_unslashed"]),
          Always({1}), FALSE)
    }

\* The slots a run may start at: before genesis, at genesis, in the middle of an
\* epoch before and after the probes' slot, and late on a chain that is running.
StartSlots == {-PreGenesisSlots, 0, 5, 20, 2 * NB_SLOT_PER_EPOCH + 3}

\* The calls of the loop body that may raise (HTTP errors, invalid pubkeys).
RaiseSites == {"get_our_pubkeys", "get_status_to_index_to_validator",
    "exited_validators", "epoch_probes", "get_validators_liveness", "get_rewards",
    "net_rewards", "get_rewards_our", "our_rewards",
    "process_future_blocks_proposal", "process_missed_blocks_finalized",
    "get_potential_block", "process_suboptimal_attestations",
    "process_fee_recipients", "process_sync_committee_reward",
    "process_missed_blocks_head", "relays.process", "process_block_reward"}

\* the calls made after the block fetch, and after the head-miss probe
AfterBlockFetch == {"process_suboptimal_attestations", "process_fee_recipients",
    "process_sync_committee_reward", "process_missed_blocks_head", "relays.process",
    "process_block_reward"}
AfterHeadProbe == {"relays.process", "process_block_reward"}

\* the finalized head the beacon may report at a slot: one or two epochs back
FinalizedHeads(s) == {Max({0, (Epoch(s) - lag) * NB_SLOT_PER_EPOCH}) : lag \in {1, 2}}

ForeignPubkey == "0xff"

\* The inputs of one iteration.  An input the iteration does not read before it
\* raises is fixed, so that no two inputs give the same run.
Inputs(s, new_epoch) ==
    {in \in [raise_at : RaiseSites \cup {"none"},
             block : BOOLEAN,
             proposer_pubkey : {PK(1), ForeignPubkey},
             finalized_head : FinalizedHeads(s),
             schema : IF new_epoch /\ Schemas(world.labels_file[FilesEpoch(s)]) # {}
                      THEN Schemas(world.labels_file[FilesEpoch(s)]) ELSE {{}},
             gauge_schema : IF new_epoch /\ Schemas(world.labels_file[FilesEpoch(s)]) # {}
                      THEN Schemas(world.labels_file[FilesEpoch(s)]) ELSE {{}}] :
        /\ in.raise_at \in RaiseSites \ (AfterBlockFetch \cup {"get_potential_block"})
                => in.finalized_head = Min(FinalizedHeads(s))
        /\ in.raise_at \in RaiseSites \ AfterBlockFetch => ~in.block
        /\ in.raise_at \in RaiseSites \ AfterHeadProbe
                => in.proposer_pubkey = ForeignPubkey}

\* ------------------------------------------------------------------- Init
NoMetrics == [missed_attestations_count |-> 0,
    double_missed_attestations_count |-> 0,
    missed_attestations_per_validator_count |-> NoCounter,
    double_missed_attestations_per_validator_count |-> NoCounter,
    our_active_validators_per_validator_gauge |-> NoCounter,
    total_active_validators_count |-> 0,
    our_active_validators_count |-> 0,
    net_rewards_updates |-> 0,
    our_rewards_updates |-> 0]

NoHist == [first_slot |-> None, boundary_at |-> <<>>, boundary_done |-> <<>>,
    missed_at |-> <<>>,
    rewards_at |-> <<>>, liveness_queries |-> <<>>, rewards_queries |-> <<>>,
    missed_incs |-> <<>>, double_raised |-> <<>>, snapshot_reads |-> <<>>,
    missed_returned |-> <<>>, double_args |-> <<>>]

\* lines 259-276; `slot` is one less than the first slot the iterator will yield
InitWith(start, w) ==
    /\ slot = start - 1
    /\ idx = -1
    /\ status = "running"
    /\ our_pubkeys = {}
    /\ our_labels = <<>>
    /\ our_active_idx2val = <<>>
    /\ our_validators_indexes_that_missed_attestation = {}
    /\ our_validators_indexes_that_missed_previous_attestation = {}
    /\ our_epoch2active_idx2val = <<>>
    /\ net_epoch2active_idx2val = <<>>
    /\ last_missed_attestations_process_epoch = None
    /\ last_rewards_process_epoch = None
    /\ previous_epoch = None
    /\ last_processed_finalized_slot = None
    /\ potential_block = FALSE
    /\ is_our_validator = FALSE
    /\ metrics = NoMetrics
    /\ effects = [liveness_file_touches |-> 0, http_server_starts |-> 0,
                  slack_messages |-> 0]
    /\ log = <<>>
    /\ raised = "none"
    /\ hist = NoHist
    /\ world = w

\* Relays(relays_url) with no --relay-url given (257); no relay-side call observed
NoRelays == [urls |-> <<>>, payload_delivered |-> <<>>, builder_validators |-> <<>>]
NoRelayMetrics == [bad_relay_count |-> 0,
    our_mev_boost_reward_per_validator_count |-> NoCounter,
    future_block_proposals_count |-> 0]
NoRewards == [ideal_rewards |-> <<>>, total_rewards |-> <<>>]
NoCall == [op |-> "none", done |-> FALSE, slot |-> 0, is_new_epoch |-> FALSE,
    our_pubkeys |-> {}, our_labels |-> <<>>, duties_current_epoch |-> <<>>,
    duties_next_epoch |-> <<>>, slot_proposals |-> <<>>, before |-> NoRelayMetrics,
    ret |-> None, raised |-> "none", printed |-> <<>>, requests |-> <<>>,
    helper |-> "none", connection_errors |-> <<>>, attempts |-> 0,
    epoch |-> 0, net_index_to_validator |-> <<>>, our_index_to_validator |-> <<>>,
    net_rewards |-> NoRewards, our_rewards |-> NoRewards, built |-> FALSE,
    updates |-> <<>>]

Init ==
    /\ \E start \in StartSlots, w \in Worlds : InitWith(start, w)
    /\ relays = NoRelays
    /\ relay_metrics = NoRelayMetrics
    /\ call = NoCall

\* ---------------------------------------------------------------- actions
\* mutant: the iterator yields every other slot
slots_every_other(last) == last + 2
\* utils.slots (line 278): the slot the iterator yields after the slot `last`
slots(last) == last + 1

\* mutant: the iteration goes on to the next slot without touching the file
PreGenesis_no_touch ==
    /\ status = "running"
    /\ slots(slot) < 0
    /\ Commit([St EXCEPT !.slot = slots(slot), !.idx = idx + 1, !.log = <<>>])

\* mutant: the finalized cursor is initialised before the slot's sign is looked at
PreGenesis_cursor ==
    /\ status = "running"
    /\ slots(slot) < 0
    /\ Commit([St EXCEPT !.slot = slots(slot), !.idx = idx + 1, !.log = <<>>,
                         !.last_processed_finalized_slot = slots(slot),
                         !.effects.liveness_file_touches =
                             IF world.liveness_file THEN @ + 1 ELSE @])

\* lines 279-294: an iteration before genesis
PreGenesis ==
    /\ status = "running"
    /\ slots(slot) < 0
    /\ Commit([St EXCEPT !.slot = slots(slot), !.idx = idx + 1, !.log = <<>>,
                         !.effects.liveness_file_touches =
                             IF world.liveness_file THEN @ + 1 ELSE @])

\* lines 296-505: an iteration for a slot >= 0; an exception leaves _handler and
\* handler (196-211), which catches KeyboardInterrupt alone
ProcessSlot ==
    /\ status = "running"
    /\ slots(slot) >= 0
    /\ slots(slot) <= MaxSlot
    /\ \E in \in Inputs(slots(slot), is_new_epoch(previous_epoch, Epoch(slots(slot)))) :
        LET s0 == [St EXCEPT !.slot = slots(slot), !.idx = idx + 1, !.log = <<>>,
                             !.potential_block = FALSE, !.is_our_validator = FALSE]
            s1 == LoopBody(s0, in)
        IN  Commit(IF Ok(s1) THEN s1 ELSE [s1 EXCEPT !.status = "crashed"])

\* lines 210-211: the operator interrupts the loop
KeyboardInterrupt ==
    /\ status = "running"
    /\ Commit([St EXCEPT !.status = "bye"])

Next == PreGenesis \/ ProcessSlot \/ KeyboardInterrupt

Spec == Init /\ [][Next]_vars

\* ------------------------------------------------- the relay-side functions
\* The functions of relays.py and next_blocks_proposal.py, each applied once to
\* arguments and relay answers drawn from the sets below.
MaxRelays == 2
CustomRelay == "relay.example.org"
RelayUrls == (DOMAIN RELAY_MAPPING) \cup {CustomRelay}
\* the lists of distinct URLs --relay-url may give, up to n of them
UrlLists(n) ==
    {<<>>} \cup {urls \in UNION {[1..k -> RelayUrls] : k \in 1..n} :
                    \A i, j \in DOMAIN urls : i # j => urls[i] # urls[j]}
\* the value, in wei, of the payload the relays may report for the slot
PayloadValue == 2 * Gwei
PayloadAnswers == {NoPayload, OnePayload(PK(1), PayloadValue),
    OnePayload(ForeignPubkey, PayloadValue), ManyPayloads, PayloadRetryError}
\* a slot of epoch 1 and its first slot, and duties of epochs 1 and 2
EpochStartSlot == NB_SLOT_PER_EPOCH
MidEpochSlot == NB_SLOT_PER_EPOCH + 5
EarlyDuty == Duty(NB_SLOT_PER_EPOCH + 1, PK(1))
LateDuty == Duty(NB_SLOT_PER_EPOCH + 8, PK(MaxIdx))
NextEpochDuty == Duty(2 * NB_SLOT_PER_EPOCH + 6, PK(1))
DutyLists == {<<>>, <<EarlyDuty>>, <<LateDuty>>, <<EarlyDuty, LateDuty>>}
RegistrationEntries == {<<EarlyDuty.slot, EarlyDuty.pubkey>>,
    <<EarlyDuty.slot, LateDuty.pubkey>>, <<LateDuty.slot, LateDuty.pubkey>>}
ValidatorsAnswers ==
    {ValidatorsList(entries) : entries \in SUBSET RegistrationEntries}
        \cup {ValidatorsRetryError}
\* the MEV-boost counter as init_relays_per_validator_counters leaves it (33-50)
InitRelayMetrics(labels_map, bad) ==
    [bad_relay_count |-> bad,
     our_mev_boost_reward_per_validator_count |->
        IF Cardinality(DOMAIN labels_map) = 0 THEN NoCounter
        ELSE [NewCounter({"operator", RELAY_KEY}) EXCEPT !.series =
                 [l \in {WithRelay(d, RELAY_MAPPING[u]) :
                            d \in LabelDicts(labels_map), u \in DOMAIN RELAY_MAPPING} |-> 0]],
     future_block_proposals_count |-> 0]

handler_vars == <<slot, idx, status, our_pubkeys, our_labels, our_active_idx2val,
    our_validators_indexes_that_missed_attestation,
    our_validators_indexes_that_missed_previous_attestation,
    our_epoch2active_idx2val, net_epoch2active_idx2val,
    last_missed_attestations_process_epoch, last_rewards_process_epoch,
    previous_epoch, last_processed_finalized_slot, potential_block,
    is_our_validator, metrics, effects, log, raised, hist, world>>

\* a call of Relays.process is about to be made
ProcessCalls ==
    /\ \E urls \in UrlLists(MaxRelays) :
        \E answers \in [Range(urls) -> PayloadAnswers] :
            relays = [urls |-> urls, payload_delivered |-> answers,
                      builder_validators |-> [u \in Range(urls) |-> ValidatorsList({})]]
    /\ \E labels_map \in {<<>>, LabelsOf(AllPubkeys)}, bad \in {0, 1} :
        /\ relay_metrics = InitRelayMetrics(labels_map, bad)
        /\ call = [NoCall EXCEPT !.op = "process", !.slot = MidEpochSlot,
                                 !.our_labels = labels_map,
                                 !.before = InitRelayMetrics(labels_map, bad)]

\* a call of Relays.check_validator_registration_for_slots is about to be made
CheckCalls ==
    /\ \E urls \in UrlLists(MaxRelays) :
        \E answers \in [Range(urls) -> ValidatorsAnswers] :
            relays = [urls |-> urls, builder_validators |-> answers,
                      payload_delivered |-> [u \in Range(urls) |-> NoPayload]]
    /\ relay_metrics = NoRelayMetrics
    /\ \E slot_proposals \in DutyLists :
        call = [NoCall EXCEPT !.op = "check_validator_registration_for_slots",
                              !.slot_proposals = slot_proposals]

\* a call of process_future_blocks_proposal is about to be made
FutureCalls ==
    /\ \E urls \in UrlLists(1) :
        \E answers \in [Range(urls) -> {ValidatorsList({}),
                ValidatorsList({<<EarlyDuty.slot, EarlyDuty.pubkey>>})}] :
            relays = [urls |-> urls, builder_validators |-> answers,
                      payload_delivered |-> [u \in Range(urls) |-> NoPayload]]
    /\ relay_metrics = NoRelayMetrics
    /\ \E slot_ \in {EpochStartSlot, MidEpochSlot}, new_epoch \in BOOLEAN,
          pubkeys \in {{}, {PK(1)}, AllPubkeys},
          labels_map \in {<<>>, LabelsOf(AllPubkeys)},
          current \in DutyLists, next \in {<<>>, <<NextEpochDuty>>} :
        call = [NoCall EXCEPT !.op = "process_future_blocks_proposal",
                              !.slot = slot_, !.is_new_epoch = new_epoch,
                              !.our_pubkeys = pubkeys, !.our_labels = labels_map,
                              !.duties_current_epoch = current,
                              !.duties_next_epoch = next]

\* a request helper is about to be called for a relay; each call of get may
\* raise ConnectionError (more calls are listed than the helper makes)
RequestCalls ==
    /\ relays = [urls |-> <<CustomRelay>>,
                 payload_delivered |-> [u \in {CustomRelay} |-> NoPayload],
                 builder_validators |-> [u \in {CustomRelay} |-> ValidatorsList({})]]
    /\ relay_metrics = NoRelayMetrics
    /\ \E helper \in RequestHelpers,
          connection_errors \in [1..(MAX_TRIALS + 2) -> BOOLEAN] :
        call = [NoCall EXCEPT !.op = "request", !.helper = helper,
                              !.connection_errors = connection_errors]

RelayInit ==
    /\ InitWith(0, CHOOSE w \in Worlds : TRUE)
    /\ ProcessCalls \/ CheckCalls \/ FutureCalls \/ RequestCalls

Returned(r) == [call EXCEPT !.done = TRUE, !.ret = r.ret, !.raised = r.raised,
                           !.printed = r.printed, !.requests = r.requests]

RelaysProcess ==
    /\ call.op = "process" /\ ~call.done
    /\ LET r == Relays_process(call.slot, call.our_labels, relay_metrics)
       IN  /\ relay_metrics' = r.metrics
           /\ call' = Returned([r EXCEPT !.metrics = None] @@ [ret |-> None])
    /\ UNCHANGED <<handler_vars, relays>>

CheckValidatorRegistration ==
    /\ call.op = "check_validator_registration_for_slots" /\ ~call.done
    /\ call' = Returned(check_validator_registration_for_slots(call.slot_proposals))
    /\ UNCHANGED <<handler_vars, relays, relay_metrics>>

FutureBlocksProposal ==
    /\ call.op = "process_future_blocks_proposal" /\ ~call.done
    /\ LET r == process_future_blocks_proposal(call.slot, call.is_new_epoch,
                    call.our_pubkeys, call.our_labels, call.duties_current_epoch,
                    call.duties_next_epoch, relay_metrics)
       IN  /\ relay_metrics' = r.metrics
           /\ call' = Returned(r)
    /\ UNCHANGED <<handler_vars, relays>>

\* a call of a request helper, from its first call of get to its return or to
\* the ConnectionError it lets through
RelayRequest ==
    /\ call.op = "request" /\ ~call.done
    /\ LET r == RequestWithRetry(call.connection_errors, 0)
       IN  call' = [call EXCEPT !.done = TRUE, !.raised = r.raised,
                                !.attempts = r.attempts,
                                !.requests = [k \in 1..r.attempts |-> relays.urls[1]]]
    /\ UNCHANGED <<handler_vars, relays, relay_metrics>>

RelayNext ==
    \/ RelaysProcess
    \/ CheckValidatorRegistration
    \/ FutureBlocksProposal
    \/ RelayRequest

RelaySpec == RelayInit /\ [][RelayNext]_vars

\* ------------------------------------------------- calls of process_rewards
\* the snapshots process_rewards may find: none, the validators of the chain
\* at full effective balance, and the last of them one ETH below
RewardsSnapshots ==
    {<<>>, [i \in Idx |-> Validator(i, "active_ongoing")],
     [i \in Idx |-> [Validator(i, "active_ongoing") EXCEPT
                        !.effective_balance = IF i = MaxIdx THEN 31 ELSE 32]]}
\* the ideal-reward row of an effective balance, and the rows of a response
IdealRewardOf(effective_balance) ==
    IF effective_balance = 32 THEN <<2, 3, 1>> ELSE <<1, 2, 1>>
IdealRows == {[b \in balances |-> IdealRewardOf(b)] : balances \in {{}, {32}, {31, 32}}}
\* (source, target, head) of a validator: ideal, penalised on both, on target
ActualRewards == {<<2, 3, 1>>, <<0 - 2, 0 - 3, 0>>, <<2, 0 - 3, 0>>}
TotalRows == UNION {[indexes -> ActualRewards] : indexes \in SUBSET Idx}

\* a call of process_rewards is about to be made
RewardsCalls ==
    /\ relays = NoRelays
    /\ relay_metrics = NoRelayMetrics
    /\ \E epoch \in {1, 2}, net \in RewardsSnapshots, watched \in {{}, {1}, Idx},
          ideal_rewards \in IdealRows, total_rewards \in TotalRows,
          unanswered \in {{}, {MaxIdx}},
          labelling \in {<<<<>>, FALSE>>, <<<<>>, TRUE>>, <<LabelsOf(AllPubkeys), TRUE>>,
                         <<LabelsOf({PK(1)}), TRUE>>} :
        call = [NoCall EXCEPT !.op = "process_rewards", !.epoch = epoch,
                    !.net_index_to_validator = net,
                    !.our_index_to_validator = Restrict(net, watched),
                    !.net_rewards = [ideal_rewards |-> ideal_rewards,
                                     total_rewards |-> total_rewards],
                    !.our_rewards = [ideal_rewards |-> ideal_rewards,
                                     total_rewards |-> Restrict(total_rewards, watched \ unanswered)],
                    !.our_labels = labelling[1], !.built = labelling[2]]

RewardsInit ==
    /\ InitWith(0, CHOOSE w \in Worlds : TRUE)
    /\ RewardsCalls

ProcessRewards ==
    /\ call.op = "process_rewards" /\ ~call.done
    /\ LET r == process_rewards_call(call.epoch, call.net_index_to_validator,
                    call.our_index_to_validator, call.net_rewards, call.our_rewards,
                    call.our_labels, call.built)
       IN  call' = [call EXCEPT !.done = TRUE, !.raised = r.raised, !.printed = r.printed,
                                !.requests = r.requests, !.updates = r.updates]
    /\ UNCHANGED <<handler_vars, relays, relay_metrics>>

RewardsNext == ProcessRewards

RewardsSpec == RewardsInit /\ [][RewardsNext]_vars

\* ------------------------------------------------------------- properties
\* a slot >= 0 has been yielded: `slot` is the slot of the last iteration
Processed == idx >= 0 /\ slot >= 0
\* the epochs in which this run has processed a slot
ProcessedEpochs == Epoch(hist.first_slot)..Epoch(slot)
\* the first slot of epoch e this run processed
FirstProcessedSlotOf(e) == Max({hist.first_slot, e * NB_SLOT_PER_EPOCH})
\* the positions of seq whose slot lies in epoch e
InEpoch(seq, e) == {k \in DOMAIN seq : Epoch(seq[k]) = e}

\* C1, as claimed: when a probe raises while a slot is processed, the loop does
\* not terminate (it logs the error and goes on to the next slot).
C1_LoopSurvivesProbeException == raised # "none" => status = "running"

\* where an exception can leave the epoch-boundary step, and MissedAttestations
BoundarySites == {"get_our_pubkeys", "init_missed_attestations_per_validator_counters",
    "our_active_validators_per_validator_gauge", "get_status_to_index_to_validator",
    "exited_validators", "epoch_probes"}
MissedAttestationsSites == {"get_validators_liveness",
    "process_missed_attestations.KeyError", "process_missed_attestations.ValueError"}

\* C2, as claimed: the epoch-boundary reconciliation runs exactly once in every
\* epoch in which a slot is processed, at a slot with slot mod 32 = 0.
C2_ReconciliationAtSlotZero ==
    Processed /\ status = "running" =>
        /\ \A e \in ProcessedEpochs : Cardinality(InEpoch(hist.boundary_at, e)) = 1
        /\ \A k \in DOMAIN hist.boundary_at : SlotInEpoch(hist.boundary_at[k]) = 0

\* C2, amended: the reconciliation is entered exactly once in every epoch in
\* which a slot is processed, at the first slot of that epoch the run processes;
\* that slot has slot mod 32 = 0 unless it is the first processed slot of the run.
C2_ReconciliationAtFirstProcessedSlot ==
    Processed =>
        \A e \in ProcessedEpochs :
            /\ Cardinality(InEpoch(hist.boundary_at, e)) = 1
            /\ \A k \in InEpoch(hist.boundary_at, e) :
                /\ hist.boundary_at[k] = FirstProcessedSlotOf(e)
                /\ (hist.boundary_at[k] # hist.first_slot
                        => SlotInEpoch(hist.boundary_at[k]) = 0)

\* C2 witness: a run that began in the middle of an epoch has reconciled there
\* and again at the next epoch's first slot.
C2_Witness ==
    /\ Processed
    /\ SlotInEpoch(hist.first_slot) # 0
    /\ Len(hist.boundary_at) >= 2
    /\ SlotInEpoch(slot) > 0

\* C3: no probe runs in a slot of epoch e before the epoch-boundary
\* reconciliation for e has completed, also when the run begins in the middle of
\* an epoch: whenever the iteration has called a probe, the reconciliation of
\* the slot's epoch has completed (in this iteration, before the probe, or in an
\* earlier one), the watched set is the one of that epoch and both windows hold
\* the epoch.
C3_NoProbeBeforeReconciliation ==
    Processed =>
        \A k \in DOMAIN log :
            log[k] # "epoch_boundary" =>
                /\ InEpoch(hist.boundary_done, Epoch(slot)) # {}
                /\ (slot \in Range(hist.boundary_done) => log[1] = "epoch_boundary" /\ k > 1)
                /\ our_pubkeys = world.pubkeys_file[Epoch(slot)]
                /\ Epoch(slot) \in DOMAIN our_epoch2active_idx2val
                /\ Epoch(slot) \in DOMAIN net_epoch2active_idx2val

\* C3 witness: the first processed slot of a run lies past the middle of an
\* epoch, and the iteration has called the missed-attestation and rewards probes.
C3_Witness ==
    /\ Processed
    /\ status = "running"
    /\ slot = hist.first_slot
    /\ SlotInEpoch(slot) > SLOT_FOR_MISSED_ATTESTATIONS_PROCESS
    /\ "process_missed_attestations" \in Range(log)
    /\ "process_rewards" \in Range(log)

\* C4: in every epoch MissedAttestations followed by DoubleMissedAttestations
\* runs at most once, only in a slot with slot mod 32 >= 16, and it runs in the
\* first slot of the epoch with slot mod 32 >= 16 whose iteration gets past the
\* epoch boundary; DoubleMissedAttestations is called right after
\* MissedAttestations has returned, and never otherwise.
C4_MissedAttestationsOncePerEpoch ==
    Processed =>
        /\ \A j, k \in DOMAIN hist.missed_at :
            j # k => Epoch(hist.missed_at[j]) # Epoch(hist.missed_at[k])
        /\ \A k \in DOMAIN hist.missed_at :
            SlotInEpoch(hist.missed_at[k]) >= SLOT_FOR_MISSED_ATTESTATIONS_PROCESS
        /\ \A e \in ProcessedEpochs :
            LET t == Max({hist.first_slot,
                          e * NB_SLOT_PER_EPOCH + SLOT_FOR_MISSED_ATTESTATIONS_PROCESS})
            IN  /\ t <= slot /\ ~(t = slot /\ raised \in BoundarySites)
                    => t \in Range(hist.missed_at)
                /\ \A k \in InEpoch(hist.missed_at, e) : hist.missed_at[k] = t
        /\ ("process_missed_attestations" \in Range(log)
                <=> hist.missed_at # <<>> /\ hist.missed_at[Len(hist.missed_at)] = slot)
        /\ \A k \in DOMAIN log :
            /\ log[k] = "process_double_missed_attestations"
                => k > 1 /\ log[k - 1] = "process_missed_attestations"
            /\ log[k] = "process_missed_attestations" /\ raised \notin MissedAttestationsSites
                => k < Len(log) /\ log[k + 1] = "process_double_missed_attestations"

\* C4 witness: a run that began past slot 16 of an epoch ran the pair in its
\* first slot and again at slot 16 of the next epoch.
C4_Witness ==
    /\ Processed
    /\ status = "running"
    /\ Len(hist.missed_at) = 2
    /\ hist.missed_at[1] = hist.first_slot
    /\ SlotInEpoch(hist.first_slot) > SLOT_FOR_MISSED_ATTESTATIONS_PROCESS
    /\ hist.missed_at[2] = slot
    /\ "process_double_missed_attestations" \in Range(log)

\* the liveness queries made so far whose epoch is q
QueriesFor(q) == {k \in DOMAIN hist.liveness_queries : hist.liveness_queries[k][2] = q}
\* the indexes MissedAttestations found dead for epoch q in this run ({} when
\* it never asked)
Observed(q) ==
    IF QueriesFor(q) = {} THEN {}
    ELSE DeadIndexes(q, hist.liveness_queries[CHOOSE k \in QueriesFor(q) : TRUE][3])
\* the double misses announced in epoch e
DoubleRaised(e) ==
    UNION {hist.double_raised[k][2] : k \in {j \in DOMAIN hist.double_raised :
                                              hist.double_raised[j][1] = e}}
DoubleRan == Processed /\ "process_double_missed_attestations" \in Range(log)

\* C5, as claimed: when the probe runs in epoch e, a double miss is raised for a
\* watched validator iff it missed its attestation in both e-1 and e-2 (and e >= 2).
C5_DoubleMissIffMissedBoth ==
    DoubleRan /\ Epoch(slot) >= 2 =>
        LET e == Epoch(slot)
            asked == hist.liveness_queries[Len(hist.liveness_queries)][3]
        IN  DoubleRaised(e) = {i \in asked : i \in world.dead[e - 1] /\ i \in world.dead[e - 2]}

\* C5, amended: when the probe runs in epoch e, a double miss is raised for a
\* validator iff e >= 2 and the validator is in the set MissedAttestations
\* obtained in epoch e (the misses of e-1) and in the set it obtained in epoch
\* e-1 of the same run (the misses of e-2); in the first epoch of a run there is
\* no earlier set and no double miss is raised.
C5_DoubleMissIffInBothObservedSets ==
    DoubleRan =>
        LET e == Epoch(slot)
            expected == IF e >= 2 THEN Observed(e - 1) \cap Observed(e - 2) ELSE {}
        IN  /\ DoubleRaised(e) = expected
            /\ e = Epoch(hist.first_slot) => DoubleRaised(e) = {}
            /\ e >= 2 => metrics.double_missed_attestations_count = Cardinality(expected)

\* C5 witness: the probe has run in an epoch >= 2 and raised a double miss
C5_Witness ==
    /\ DoubleRan
    /\ status = "running"
    /\ Epoch(slot) >= 2
    /\ DoubleRaised(Epoch(slot)) # {}

Count(seq, x) == Cardinality({k \in DOMAIN seq : seq[k] = x})
RECURSIVE SumOver(_, _)
SumOver(f, S) ==
    IF S = {} THEN 0
    ELSE LET x == CHOOSE y \in S : TRUE IN f[x] + SumOver(f, S \ {x})
\* the liveness query at position k has been answered and MissedAttestations
\* has returned
MissedRunReturned(k) ==
    ~(hist.liveness_queries[k][1] = slot /\ raised \in MissedAttestationsSites)

AllZero(c) == \A l \in DOMAIN c.series : c.series[l] = 0

\* C7: while epoch < 1 MissedAttestations makes no liveness query, changes no
\* metric and returns the empty set; while epoch < 2 DoubleMissedAttestations and
\* Rewards change no metric and send no message.  (A run that is in epoch 0 or 1
\* has never been in a later one, so "unchanged" is "as at the start".)
C7_ProbesDisabledInEarlyEpochs ==
    Processed =>
        /\ Epoch(slot) < 1 =>
            /\ hist.liveness_queries = <<>>
            /\ metrics.missed_attestations_count = 0
            /\ AllZero(metrics.missed_attestations_per_validator_count)
            /\ hist.missed_incs = <<>>
            /\ our_validators_indexes_that_missed_attestation = {}
        /\ Epoch(slot) < 2 =>
            /\ metrics.double_missed_attestations_count = 0
            /\ AllZero(metrics.double_missed_attestations_per_validator_count)
            /\ hist.double_raised = <<>>
            /\ effects.slack_messages = 0
            /\ hist.rewards_queries = <<>>
            /\ metrics.net_rewards_updates = 0
            /\ metrics.our_rewards_updates = 0

\* C7 witness: the three probes have been called in epoch 1, after
\* MissedAttestations was called in epoch 0
C7_Witness ==
    /\ Processed
    /\ status = "running"
    /\ Epoch(slot) = 1
    /\ Len(hist.missed_at) = 2
    /\ Epoch(hist.missed_at[1]) = 0
    /\ "process_double_missed_attestations" \in Range(log)
    /\ "process_rewards" \in Range(log)

\* C8: the Rewards probe runs at most once per epoch, only in a slot with
\* slot mod 32 >= 16; it asks the beacon for rewards and updates metrics only
\* when epoch >= 2, and in epoch e it asks for the rewards of epoch e-2.
C8_RewardsOncePerEpoch ==
    Processed =>
        /\ \A j, k \in DOMAIN hist.rewards_at :
            j # k => Epoch(hist.rewards_at[j]) # Epoch(hist.rewards_at[k])
        /\ \A k \in DOMAIN hist.rewards_at :
            SlotInEpoch(hist.rewards_at[k]) >= SLOT_FOR_REWARDS_PROCESS
        /\ \A k \in DOMAIN hist.rewards_queries :
            LET q == hist.rewards_queries[k]
            IN  /\ q[1] \in Range(hist.rewards_at)
                /\ Epoch(q[1]) >= 2
                /\ q[2] = Epoch(q[1]) - 2
                /\ \A j \in DOMAIN hist.rewards_queries :
                    j # k /\ hist.rewards_queries[j][3] = q[3]
                        => Epoch(hist.rewards_queries[j][1]) # Epoch(q[1])
        /\ metrics.net_rewards_updates
            <= Cardinality({k \in DOMAIN hist.rewards_queries : hist.rewards_queries[k][3] = "net"})
        /\ metrics.our_rewards_updates
            <= Cardinality({k \in DOMAIN hist.rewards_queries : hist.rewards_queries[k][3] = "our"})

\* C8 witness: the probe has fetched and updated both passes in two epochs
C8_Witness ==
    /\ Processed
    /\ status = "running"
    /\ Len(hist.rewards_queries) = 4
    /\ metrics.our_rewards_updates = 2
    /\ metrics.net_rewards_updates = 2

\* the order of the steps of a slot, as the spec gives it and as the code has it
RankClaimed(p) ==
    CASE p \in {"block_wait", "get_potential_block"} -> 1
      [] p \in {"process_suboptimal_attestations", "process_fee_recipients"} -> 2
      [] p = "process_sync_committee_reward" -> 3
      [] p = "process_missed_blocks_head" -> 4
      [] p = "process_missed_blocks_finalized" -> 5
      [] p \in {"relays.process", "process_block_reward"} -> 6
      [] OTHER -> 0
RankInCode(p) ==
    CASE p = "process_missed_blocks_finalized" -> 1
      [] p \in {"block_wait", "get_potential_block"} -> 2
      [] p \in {"process_suboptimal_attestations", "process_fee_recipients"} -> 3
      [] p = "process_sync_committee_reward" -> 4
      [] p = "process_missed_blocks_head" -> 5
      [] p \in {"relays.process", "process_block_reward"} -> 6
      [] OTHER -> 0
EverySlotProbes == {"process_future_blocks_proposal", "process_missed_blocks_finalized",
    "block_wait", "get_potential_block", "process_sync_committee_reward",
    "process_missed_blocks_head"}

\* C9, as claimed: within a processed slot the steps come in the order
\* block-wait, block-dependent probes, SyncCommitteeReward, MissedBlockHead,
\* MissedBlockFinalized, Relay and BlockReward.
C9_OrderAsClaimed ==
    Processed /\ status = "running" =>
        \A j, k \in DOMAIN log :
            j < k /\ RankClaimed(log[j]) > 0 /\ RankClaimed(log[k]) > 0
                => RankClaimed(log[j]) <= RankClaimed(log[k])

\* C9, amended: within a processed slot the steps come in the order
\* MissedBlockFinalized catch-up, block-wait, block-dependent probes
\* (SuboptimalAttestations, FeeRecipient), SyncCommitteeReward, MissedBlockHead,
\* Relay and BlockReward: the finalized catch-up runs before the block-wait and
\* before the head-miss probe.  No step runs twice, and a slot processed to its
\* end has run every unconditional step.
C9_OrderInCode ==
    Processed =>
        /\ \A j, k \in DOMAIN log :
            j < k =>
                /\ log[j] # log[k]
                /\ RankInCode(log[j]) > 0 /\ RankInCode(log[k]) > 0
                    => RankInCode(log[j]) <= RankInCode(log[k])
                /\ RankInCode(log[j]) > 0 => RankInCode(log[k]) > 0
        /\ status = "running" => EverySlotProbes \subseteq Range(log)

\* C9 witness: a slot with a block proposed by a watched validator has run
\* every step
C9_Witness ==
    /\ Processed
    /\ status = "running"
    /\ potential_block
    /\ is_our_validator
    /\ {"process_fee_recipients", "relays.process", "process_block_reward",
        "process_missed_blocks_finalized"} \subseteq Range(log)

\* C10: net_window and our_window each hold at most 3 epochs
C10_WindowsHoldAtMostThreeEpochs ==
    /\ Cardinality(DOMAIN net_epoch2active_idx2val) <= 3
    /\ Cardinality(DOMAIN our_epoch2active_idx2val) <= 3

\* C10 witness: a fourth epoch has been inserted and the oldest one evicted
C10_Witness ==
    /\ Processed
    /\ Len(hist.boundary_done) = 4
    /\ DOMAIN net_epoch2active_idx2val = {1, 2, 3}
    /\ DOMAIN our_epoch2active_idx2val = {1, 2, 3}

\* C11: any two epochs e1 < e2 present in the same window (net_window or
\* our_window) satisfy e2 - e1 <= 2
C11_WindowEpochsSpanAtMostTwo ==
    /\ \A e1, e2 \in DOMAIN net_epoch2active_idx2val : e1 < e2 => e2 - e1 <= 2
    /\ \A e1, e2 \in DOMAIN our_epoch2active_idx2val : e1 < e2 => e2 - e1 <= 2

\* C11 witness: after an eviction both windows span exactly two epochs
C11_Witness ==
    /\ Processed
    /\ Len(hist.boundary_done) >= 4
    /\ Max(DOMAIN net_epoch2active_idx2val) - Min(DOMAIN net_epoch2active_idx2val) = 2
    /\ Max(DOMAIN our_epoch2active_idx2val) - Min(DOMAIN our_epoch2active_idx2val) = 2

\* C12: after the epoch-boundary step, for every epoch still present in
\* our_window, every validator index of our_window[e] is in net_window[e] with
\* the same validator record
C12_OurWindowWithinNetWindow ==
    \A e \in DOMAIN our_epoch2active_idx2val :
        /\ e \in DOMAIN net_epoch2active_idx2val
        /\ \A i \in DOMAIN our_epoch2active_idx2val[e] :
            /\ i \in DOMAIN net_epoch2active_idx2val[e]
            /\ our_epoch2active_idx2val[e][i] = net_epoch2active_idx2val[e][i]

\* C12 witness: a boundary has completed and left a watched snapshot that is
\* non-empty and smaller than the network's, next to an older one that is equal
C12_Witness ==
    /\ Processed
    /\ status = "running"
    /\ \E e \in DOMAIN our_epoch2active_idx2val :
        /\ DOMAIN our_epoch2active_idx2val[e] # {}
        /\ DOMAIN our_epoch2active_idx2val[e] # DOMAIN net_epoch2active_idx2val[e]
        /\ e - 1 \in DOMAIN our_epoch2active_idx2val
        /\ DOMAIN our_epoch2active_idx2val[e - 1] = DOMAIN net_epoch2active_idx2val[e - 1]

\* the snapshot reads of the probe named p
ReadsOf(p) == {k \in DOMAIN hist.snapshot_reads : hist.snapshot_reads[k][2] = p}

\* C13, as claimed: when the wanted epoch is missing from the window the probe
\* reads the newest epoch present: MissedAttestations in epoch e reads
\* our_window[e-1] and otherwise our_window[e]; Rewards reads the snapshot of
\* e-2 and otherwise the newest present one.
C13_FallbackToNewest ==
    \A k \in DOMAIN hist.snapshot_reads :
        LET r == hist.snapshot_reads[k]
            e == Epoch(r[1])
            wanted == IF r[2] = "missed" THEN e - 1 ELSE e - 2
        IN  r[3] = IF wanted \in r[4] THEN wanted ELSE Max(r[4])

\* C13, amended: MissedAttestations in epoch e reads our_window[e-1] and
\* otherwise our_window[e]; Rewards in epoch e reads the snapshot of e-2,
\* otherwise the one of e-1, and the one of e (the newest) only when neither is
\* present: the fallback goes to the nearest later epoch, not to the newest.
C13_FallbackToNearest ==
    \A k \in DOMAIN hist.snapshot_reads :
        LET r == hist.snapshot_reads[k]
            e == Epoch(r[1])
        IN  /\ r[3] \in r[4]
            /\ r[2] = "missed" =>
                r[3] = IF e - 1 \in r[4] THEN e - 1 ELSE e
            /\ r[2] \in {"rewards_net", "rewards_our"} =>
                r[3] = IF e - 2 \in r[4] THEN e - 2
                       ELSE IF e - 1 \in r[4] THEN e - 1 ELSE e

\* C13 witness: the run has seen a MissedAttestations fallback to e, a Rewards
\* fallback to e-1 while e is present, and a Rewards fallback to e
C13_Witness ==
    /\ Processed
    /\ status = "running"
    /\ \E k \in ReadsOf("missed") :
        hist.snapshot_reads[k][3] = Epoch(hist.snapshot_reads[k][1])
    /\ \E k \in ReadsOf("rewards_our") :
        hist.snapshot_reads[k][3] = Epoch(hist.snapshot_reads[k][1]) - 1
    /\ \E k \in ReadsOf("rewards_our") :
        hist.snapshot_reads[k][3] = Epoch(hist.snapshot_reads[k][1])

\* the iterations that ran to their end: all those begun, but the one an
\* exception has ended
IterationsCompleted == idx + 1 - (IF status = "crashed" THEN 1 ELSE 0)

\* C14: when a liveness file is configured it is touched once in every loop
\* iteration: in every pre-genesis iteration (slot < 0) and at the end of every
\* processed slot
C14_LivenessFileTouchedEveryIteration ==
    effects.liveness_file_touches =
        IF world.liveness_file THEN IterationsCompleted ELSE 0

\* C14 witness: a run with a liveness file went through iterations before
\* genesis and through processed slots
C14_Witness ==
    /\ world.liveness_file
    /\ status = "running"
    /\ hist.first_slot = 0
    /\ idx >= PreGenesisSlots + 1
    /\ effects.liveness_file_touches = idx + 1

\* C15: while the yielded slot is negative no probe runs, the watched set is
\* not loaded or classified, and no window, buffer or cursor changes: all of
\* them are as _handler initialised them, only the liveness file is touched
C15_NothingRunsBeforeGenesis ==
    slot < 0 =>
        /\ log = <<>>
        /\ raised = "none"
        /\ hist = NoHist
        /\ metrics = NoMetrics
        /\ our_pubkeys = {}
        /\ our_labels = <<>>
        /\ our_active_idx2val = <<>>
        /\ our_epoch2active_idx2val = <<>>
        /\ net_epoch2active_idx2val = <<>>
        /\ our_validators_indexes_that_missed_attestation = {}
        /\ our_validators_indexes_that_missed_previous_attestation = {}
        /\ last_missed_attestations_process_epoch = None
        /\ last_rewards_process_epoch = None
        /\ previous_epoch = None
        /\ last_processed_finalized_slot = None
        /\ effects.http_server_starts = 0
        /\ effects.slack_messages = 0

\* C15 witness: two iterations have run before genesis
C15_Witness ==
    /\ slot < 0
    /\ idx >= 1
    /\ status = "running"
    /\ effects.liveness_file_touches = idx + 1

\* C16, as claimed: the HTTP server is started exactly once, at the end of the
\* first processed slot with slot >= 0, also in a run that began before genesis
C16_HttpServerStartedOnce ==
    Processed /\ status = "running" => effects.http_server_starts = 1

\* a relay-side call of the function named op has returned or raised
Called(op) == call.op = op /\ call.done
\* some configured relay that answers lists the pair (slot, pubkey) of the duty
Listed(duty) ==
    \E u \in Range(relays.urls) :
        /\ relays.builder_validators[u].kind = "list"
        /\ <<duty.slot, duty.pubkey>> \in relays.builder_validators[u].entries
\* the watched duties of the current epoch that no relay lists
UnlistedWatchedDuties ==
    {d \in Range(call.duties_current_epoch) : d.pubkey \in call.our_pubkeys /\ ~Listed(d)}

\* C17, as claimed: at an epoch boundary, when the duties of the current epoch
\* include a watched pubkey P at some slot and no configured relay lists that
\* (slot, P), FutureBlockProposals completes and prints 'not registered to any
\* MEV relay' for P and that slot.
\* (Stated for an upcoming duty, with a relay and labels configured.)
C17_UnregisteredProposerIsReported ==
    /\ Called("process_future_blocks_proposal")
    /\ call.is_new_epoch
    /\ Len(relays.urls) > 0
    /\ Cardinality(DOMAIN call.our_labels) > 0
    =>  \A d \in UnlistedWatchedDuties :
            d.slot >= call.slot =>
                /\ call.raised = "none"
                /\ <<NotRegistered, d.pubkey, d.slot>> \in Range(call.printed)

SomeRetryError ==
    \E u \in Range(call.requests) :
        \/ call.op = "process" /\ relays.payload_delivered[u].kind = "RetryError"
        \/ call.op = "check_validator_registration_for_slots"
            /\ relays.builder_validators[u].kind = "RetryError"

\* C19, as claimed: when a request to a relay ends in RetryError the relay is
\* skipped and the call goes on with the remaining relays without aborting, in
\* the per-block builder check as in the registration check.
C19_RetryErrorSkipsTheRelay ==
    call.done /\ SomeRetryError => call.raised # "RetryError"

\* C20: in the per-block builder check with a relay configured, if every relay
\* answers with no record then bad_relay_count is incremented by exactly 1 and
\* the MEV-boost counter is unchanged; if some relay answers with a record then
\* bad_relay_count is unchanged
C20_BadRelayCountedOnce ==
    Called("process") /\ Len(relays.urls) > 0 =>
        /\ (\A u \in Range(relays.urls) : relays.payload_delivered[u].kind = "none") =>
            /\ call.raised = "none"
            /\ relay_metrics.bad_relay_count = call.before.bad_relay_count + 1
            /\ relay_metrics.our_mev_boost_reward_per_validator_count
                = call.before.our_mev_boost_reward_per_validator_count
            /\ call.printed = <<UnknownBuilder>>
        /\ (\E u \in Range(relays.urls) : relays.payload_delivered[u].kind = "one") =>
            relay_metrics.bad_relay_count = call.before.bad_relay_count

\* C20 witness: two relays, labels configured, neither relay has a record
C20_Witness ==
    /\ Called("process")
    /\ Len(relays.urls) = 2
    /\ Cardinality(DOMAIN call.our_labels) > 0
    /\ call.requests = relays.urls
    /\ \A u \in Range(relays.urls) : relays.payload_delivered[u].kind = "none"
    /\ call.before.bad_relay_count = 1
    /\ relay_metrics.bad_relay_count = 2

\* the sum of the series of the MEV-boost counter held in the metrics m
MevTotal(m) ==
    SumOver(m.our_mev_boost_reward_per_validator_count.series,
            DOMAIN m.our_mev_boost_reward_per_validator_count.series)
\* the relays that report the payload of the slot
Reporting == {u \in Range(relays.urls) : relays.payload_delivered[u].kind = "one"}

\* C21, as claimed: for a produced block of a watched proposer, with relays
\* configured, the MEV-boost-reward counter is updated exactly once, whatever the
\* number of relays that report the payload: a builder check that returns,
\* with a payload reported, has added the payload's value (in Gwei) once.
C21_MevCounterUpdatedOnce ==
    /\ Called("process")
    /\ call.raised = "none"
    /\ Cardinality(DOMAIN call.our_labels) > 0
    /\ Reporting # {}
    =>  MevTotal(relay_metrics) - MevTotal(call.before) = PayloadValue \div Gwei

\* some configured relay would return more than one record for the slot
SomeManyRecords == \E u \in Range(relays.urls) : relays.payload_delivered[u].kind = "many"
\* the positions of the configured relays that have an answer other than "no
\* record", and the first of them
Answering == {k \in DOMAIN relays.urls : relays.payload_delivered[relays.urls[k]].kind # "none"}
FirstAnswer == relays.payload_delivered[relays.urls[Min(Answering)]]

\* C22, as claimed: in the per-block builder check, whenever some configured
\* relay would return more than one record for the slot, the check terminates
\* with an error, whichever position the relay has in the list and whether or
\* not labels are configured.
C22_ManyRecordsIsAnError ==
    Called("process") /\ SomeManyRecords => call.raised # "none"

\* C22, amended: whenever a relay that is asked returns more than one record,
\* the check terminates with an AssertionError.  With labels configured every
\* relay is asked unless an earlier one made the check fail, so a relay with
\* more than one record makes the check terminate with an error whichever
\* position it has.  Without labels the relays are asked in the configured
\* order only until one has delivered a record: the check terminates with the
\* error of the first relay that has an answer, if that answer is an error, and
\* a relay with more than one record placed after a relay that delivered is not
\* asked and the check completes.
C22_ManyRecordsAskedIsAnError ==
    Called("process") =>
        /\ \A u \in Range(call.requests) :
            relays.payload_delivered[u].kind = "many" => call.raised = "AssertionError"
        /\ Cardinality(DOMAIN call.our_labels) > 0 /\ SomeManyRecords
            => call.raised # "none"
        /\ Cardinality(DOMAIN call.our_labels) = 0 =>
            /\ call.raised = IF Answering = {} THEN "none" ELSE PayloadRaises(FirstAnswer)
            /\ call.requests = IF Answering = {} THEN relays.urls
                               ELSE SubSeq(relays.urls, 1, Min(Answering))

\* C22 witness: with labels configured, the second of two relays returns more
\* than one record after the first one delivered, and the check ended with the
\* AssertionError
C22_Witness ==
    /\ Called("process")
    /\ Cardinality(DOMAIN call.our_labels) > 0
    /\ Len(relays.urls) = 2
    /\ relays.payload_delivered[relays.urls[1]].kind = "one"
    /\ relays.payload_delivered[relays.urls[2]].kind = "many"
    /\ call.requests = relays.urls
    /\ call.raised = "AssertionError"

\* no relay's answer is an error, and every payload reported is that of a
\* proposer the labels map holds (when there is a labels map)
AnswersAreClean ==
    \A u \in Range(relays.urls) :
        /\ PayloadRaises(relays.payload_delivered[u]) = "none"
        /\ relays.payload_delivered[u].kind = "one" /\ Cardinality(DOMAIN call.our_labels) > 0
            => relays.payload_delivered[u].proposer_pubkey \in DOMAIN call.our_labels

\* C23, as claimed: a configured relay URL that is not one of the well-known
\* URLs is tolerated by the per-block builder check: when such a relay returns
\* a payload the check completes without error and the builder counts as known
\* (bad_relay_count is not incremented).
C23_UnknownRelayUrlTolerated ==
    /\ Called("process")
    /\ AnswersAreClean
    /\ \E u \in Reporting : u \notin DOMAIN RELAY_MAPPING
    =>  /\ call.raised = "none"
        /\ relay_metrics.bad_relay_count = call.before.bad_relay_count

\* the calls of get, among the MAX_TRIALS + 1 first ones, that do not raise
\* ConnectionError
GetSucceeds == {n \in 1..(MAX_TRIALS + 1) : ~call.connection_errors[n]}

\* C24: each relay request helper terminates: when every call of get raises
\* ConnectionError it makes the initial attempt and exactly MAX_TRIALS (5)
\* retries, then lets the ConnectionError through; when an attempt succeeds no
\* further attempt is made
C24_RequestRetriesMaxTrials ==
    Called("request") =>
        /\ GetSucceeds = {} =>
            call.attempts = 1 + MAX_TRIALS /\ call.raised = "ConnectionError"
        /\ GetSucceeds # {} =>
            call.attempts = Min(GetSucceeds) /\ call.raised = "none"

\* C24 witness: every attempt of a helper has raised ConnectionError
C24_Witness ==
    /\ Called("request")
    /\ call.helper = "__builder_validators"
    /\ \A n \in DOMAIN call.connection_errors : call.connection_errors[n]
    /\ call.raised = "ConnectionError"
    /\ Len(call.requests) = 1 + MAX_TRIALS

\* the per-validator families the handler initialises at the epoch boundary
Families == {"missed_attestations_per_validator_count",
    "double_missed_attestations_per_validator_count",
    "our_active_validators_per_validator_gauge"}
\* every series of the family c has c's label keys
SchemaKept(c) == \A l \in DOMAIN c.series : DOMAIN l = c.schema

\* C25: each per-validator metric family is constructed at most once in the
\* process lifetime, at the first epoch boundary where the labels map is
\* non-empty, and after any sequence of watched-set reloads the label key schema
\* of every series of the family is the schema chosen at that initialisation: a
\* family that exists stays as constructed, with its schema; a family comes into
\* existence only in an epoch-boundary step that loads a non-empty labels map
\* after none but empty ones; an iteration that holds a non-empty labels map and
\* did not raise has every family; every series has the family's label keys.
C25_FamiliesBuiltOnceSchemaFrozen ==
    [][\A f \in Families :
          /\ metrics[f].created =>
                metrics'[f].created /\ metrics'[f].schema = metrics[f].schema
          /\ ~metrics[f].created /\ metrics'[f].created =>
                /\ Cardinality(DOMAIN our_labels) = 0
                /\ Cardinality(DOMAIN our_labels') > 0
                /\ log' # <<>> /\ log'[1] = "epoch_boundary"
          /\ Cardinality(DOMAIN our_labels') > 0 /\ raised' = "none" => metrics'[f].created
          /\ SchemaKept(metrics'[f])]_vars

\* C25 witness: the first boundary of the run loaded an empty labels map, a
\* later one a non-empty map, the families were built there and a series has
\* been incremented
C25_Witness ==
    /\ Processed
    /\ status = "running"
    /\ Cardinality(DOMAIN world.labels_file[Epoch(hist.first_slot)]) = 0
    /\ Cardinality(DOMAIN our_labels) > 0
    /\ \A f \in Families : metrics[f].created /\ metrics[f].schema = {"operator"}
    /\ hist.missed_incs # <<>>

\* a non-empty labels map has been loaded at a boundary of this run
LabelsSeen == \E e \in ProcessedEpochs : Cardinality(DOMAIN world.labels_file[e]) > 0
\* a pubkey has been watched at some epoch of this run
PubkeysSeen == \E e \in ProcessedEpochs : world.pubkeys_file[e] # {}
\* the iteration got past the load of the watched set
Loaded == Processed /\ raised # "get_our_pubkeys"

\* C26, as claimed: while the WatchedSet is empty, every per-validator labeled
\* counter family remains uninitialised and the our_active_validators_per_validator
\* gauge is never created, whatever the labels file contains.
C26_EmptyWatchedSetDisablesFamilies ==
    Loaded /\ ~PubkeysSeen => \A f \in Families : ~metrics[f].created

\* C26, amended: while no non-empty labels map has been loaded, every
\* per-validator labeled counter family remains uninitialised and the gauge is
\* not created, whatever the WatchedSet holds.  With an empty WatchedSet and a
\* non-empty labels map the families and the gauge are created at the boundary;
\* the counters' series stay at 0 and the gauge is left without series.
C26_EmptyLabelsDisableFamilies ==
    Loaded =>
        /\ ~LabelsSeen => \A f \in Families : ~metrics[f].created
        /\ ~PubkeysSeen /\ Cardinality(DOMAIN our_labels) > 0 /\ raised = "none" =>
            /\ \A f \in Families : metrics[f].created
            /\ AllZero(metrics.missed_attestations_per_validator_count)
            /\ AllZero(metrics.double_missed_attestations_per_validator_count)
            /\ DOMAIN metrics.our_active_validators_per_validator_gauge.series = {}

\* C26 witness: a run that watches nothing and has a labels file has been
\* through the probes of epoch 2, with its families created
C26_Witness ==
    /\ Loaded
    /\ status = "running"
    /\ ~PubkeysSeen
    /\ Cardinality(DOMAIN our_labels) > 0
    /\ Epoch(slot) >= 2
    /\ "process_missed_attestations" \in Range(log)
    /\ metrics.missed_attestations_per_validator_count.created

ActiveStatuses == {"active_ongoing", "active_exiting", "active_slashed"}
\* the watched validators of the slot's epoch that are active and carry the
\* label dict l
ActiveWatchedWith(l) ==
    {i \in Idx : /\ PK(i) \in our_pubkeys
                 /\ world.chain[Epoch(slot)][i] \in ActiveStatuses
                 /\ PK(i) \in DOMAIN our_labels
                 /\ our_labels[PK(i)] = l}
\* the value the per-validator gauge shows for the label dict l
GaugeValue(l) ==
    IF l \in DOMAIN metrics.our_active_validators_per_validator_gauge.series
    THEN metrics.our_active_validators_per_validator_gauge.series[l] ELSE 0
\* the epoch-boundary step of the slot's epoch has run to its end, and no
\* exception has ended the loop
BoundaryDone ==
    Processed /\ raised = "none" /\ InEpoch(hist.boundary_done, Epoch(slot)) # {}

\* C27, as claimed: after every epoch boundary the
\* our_active_validators_per_validator gauge holds, for each label combination,
\* exactly the number of watched validators of that epoch with status
\* active_ongoing, active_exiting or active_slashed carrying those labels, with
\* no value left over from an earlier epoch; its values sum to
\* our_active_validators_count.
C27_GaugeCountsActiveWatched ==
    BoundaryDone /\ metrics.our_active_validators_per_validator_gauge.created =>
        LET g == metrics.our_active_validators_per_validator_gauge
        IN  /\ \A l \in (DOMAIN g.series) \cup LabelDicts(our_labels) :
                GaugeValue(l) = Cardinality(ActiveWatchedWith(l))
            /\ SumOver(g.series, DOMAIN g.series) = metrics.our_active_validators_count

C29_SlotsInOrderWithoutGap ==
    [][idx' # idx \/ slot' # slot => idx' = idx + 1 /\ slot' = slot + 1]_vars

\* C29 witness: a run that began before genesis has gone through genesis and
\* processed the slots 0, 1 and 2 in turn
C29_Witness ==
    /\ Processed
    /\ status = "running"
    /\ hist.first_slot = 0
    /\ idx = PreGenesisSlots + 2
    /\ slot = 2

\* C30: if the watched-set load at an epoch boundary finds an invalid pubkey,
\* the iteration is aborted with an error (typer.BadParameter leaves the
\* handler) before any metric family is initialised, any window is updated or
\* any probe runs for that epoch, and the loop does not continue: the step
\* leaves the watched set, the labels, the metrics, the windows and every
\* probe's state as they were, and no step follows it
C30_InvalidPubkeyAbortsTheLoop ==
    [][/\ status = "running"
       /\ raised' = "get_our_pubkeys" =>
            /\ status' = "crashed"
            /\ log' = <<"epoch_boundary">>
            /\ hist'.boundary_at = Append(hist.boundary_at, slot')
            /\ hist'.boundary_done = hist.boundary_done
            /\ [hist' EXCEPT !.boundary_at = hist.boundary_at, !.first_slot = hist.first_slot]
                    = hist
            /\ UNCHANGED <<our_pubkeys, our_labels, metrics, effects,
                           our_active_idx2val, our_epoch2active_idx2val,
                           net_epoch2active_idx2val,
                           our_validators_indexes_that_missed_attestation,
                           our_validators_indexes_that_missed_previous_attestation,
                           last_missed_attestations_process_epoch,
                           last_rewards_process_epoch, previous_epoch>>]_vars

\* C30 witness: the load of a later epoch of a run found an invalid pubkey,
\* after the families were built and the windows filled
C30_Witness ==
    /\ raised = "get_our_pubkeys"
    /\ status = "crashed"
    /\ Len(hist.boundary_done) >= 2
    /\ our_pubkeys # {}
    /\ metrics.missed_attestations_per_validator_count.created
    /\ Epoch(slot) \notin DOMAIN our_epoch2active_idx2val

\* the probe named p was called in the last iteration
Ran(p) == p \in Range(log)

\* C31: in every processed slot, Relay and BlockReward run if and only if
\* MissedBlockHead reported the slot's proposer as a watched validator and a
\* block was produced at the slot; SuboptimalAttestations and FeeRecipient run
\* if and only if a block was produced; SyncCommitteeReward and MissedBlockHead
\* run in every processed slot.  (A probe that runs does so under its
\* condition in every iteration; "if" and "every" are for the iterations that
\* no exception has ended.)
C31_PerSlotProbesRunUnderTheirConditions ==
    Processed =>
        /\ \A p \in {"relays.process", "process_block_reward"} :
            Ran(p) => is_our_validator /\ potential_block
        /\ \A p \in {"process_suboptimal_attestations", "process_fee_recipients"} :
            Ran(p) => potential_block
        /\ status = "running" =>
            /\ \A p \in {"relays.process", "process_block_reward"} :
                Ran(p) <=> is_our_validator /\ potential_block
            /\ \A p \in {"process_suboptimal_attestations", "process_fee_recipients"} :
                Ran(p) <=> potential_block
            /\ Ran("process_sync_committee_reward")
            /\ Ran("process_missed_blocks_head")

\* C31 witness: a block was produced at the slot by a proposer that is not
\* watched: the block-dependent probes ran, Relay and BlockReward did not
C31_Witness ==
    /\ Processed
    /\ status = "running"
    /\ potential_block
    /\ ~is_our_validator
    /\ our_pubkeys # {}
    /\ Ran("process_fee_recipients")
    /\ ~Ran("relays.process")

\* the set MissedAttestations returned in epoch e of this run ({} when it
\* returned nothing or did not run)
MissedReturnedIn(e) ==
    UNION {hist.missed_returned[k][2] :
              k \in {j \in DOMAIN hist.missed_returned : hist.missed_returned[j][1] = e}}

\* C32: when DoubleMissedAttestations runs in epoch e, prev_missed is the set
\* that MissedAttestations returned in epoch e-1 (empty if it returned nothing
\* or did not run) and curr_missed is the set returned in epoch e: the rotation
\* prev_missed <- curr_missed never overwrites prev_missed with the result of
\* epoch e before the intersection for epoch e is computed
C32_RotationAfterTheIntersection ==
    /\ \A j, k \in DOMAIN hist.missed_returned :
        j # k => hist.missed_returned[j][1] # hist.missed_returned[k][1]
    /\ \A k \in DOMAIN hist.double_args :
        LET e == hist.double_args[k][1]
        IN  /\ \E j \in DOMAIN hist.missed_returned : hist.missed_returned[j][1] = e
            /\ hist.double_args[k][2] = MissedReturnedIn(e)
            /\ hist.double_args[k][3] = MissedReturnedIn(e - 1)

\* C32 witness: DoubleMissedAttestations has run in an epoch >= 2 with a
\* non-empty previous set that differs from the current one
C32_Witness ==
    /\ DoubleRan
    /\ status = "running"
    /\ Epoch(slot) >= 2
    /\ LET a == hist.double_args[Len(hist.double_args)]
       IN  a[1] = Epoch(slot) /\ a[3] # {} /\ a[2] # a[3]

\* the watched duties of a list from slot s on
UpcomingWatched(duties, s) ==
    {k \in DOMAIN duties : duties[k].pubkey \in call.our_pubkeys /\ duties[k].slot >= s}

\* C33: after FutureBlockProposals has run at slot s (to its return or to the
\* error of its registration check), future_block_proposals_count equals the
\* number of proposer duties of the current and of the next epoch whose pubkey
\* is watched and whose slot is >= s; with at most one duty per slot of an
\* epoch it never exceeds 64
C33_FutureProposalsCount ==
    Called("process_future_blocks_proposal") =>
        /\ relay_metrics.future_block_proposals_count =
               Cardinality(UpcomingWatched(call.duties_current_epoch, call.slot))
               + Cardinality(UpcomingWatched(call.duties_next_epoch, call.slot))
        /\ Len(call.duties_current_epoch) <= NB_SLOT_PER_EPOCH
           /\ Len(call.duties_next_epoch) <= NB_SLOT_PER_EPOCH
           => relay_metrics.future_block_proposals_count <= 2 * NB_SLOT_PER_EPOCH

\* C33 witness: run in the middle of an epoch, a watched duty of the epoch
\* lies behind, one lies ahead and one is in the next epoch
C33_Witness ==
    /\ Called("process_future_blocks_proposal")
    /\ call.slot = MidEpochSlot
    /\ call.our_pubkeys = AllPubkeys
    /\ call.duties_current_epoch = <<EarlyDuty, LateDuty>>
    /\ call.duties_next_epoch = <<NextEpochDuty>>
    /\ relay_metrics.future_block_proposals_count = 2

\* the validators of a pass that have a row in total_rewards and an ideal-reward
\* row for their effective balance
Classifiable(index_to_validator, data) ==
    {i \in DOMAIN index_to_validator :
        /\ i \in DOMAIN data.total_rewards
        /\ index_to_validator[i].effective_balance \in DOMAIN data.ideal_rewards}
NetClassifiable == Classifiable(call.net_index_to_validator, call.net_rewards)
OurClassifiable == Classifiable(call.our_index_to_validator, call.our_rewards)
\* the passes that reach their aggregate counters
NetPassCounts == call.epoch >= 2 /\ NetClassifiable # {}
OurPassCounts ==
    /\ NetPassCounts
    /\ OurClassifiable # {}
    /\ OurClassifiable = DOMAIN call.our_index_to_validator
\* the aggregate actual total of a pass: 1 for source, 2 for target
ActualTotal(scope, k) ==
    IF scope = "net"
    THEN SumOver([i \in NetClassifiable |-> call.net_rewards.total_rewards[i][k]], NetClassifiable)
    ELSE SumOver([i \in OurClassifiable |-> call.our_rewards.total_rewards[i][k]], OurClassifiable)
\* the updates the call made to the positive and negative aggregate counters
SignedUpdates(scope, k) ==
    {j \in DOMAIN call.updates :
        /\ call.updates[j].metric[1] = scope
        /\ call.updates[j].metric[2] \in {"actual_pos", "actual_neg"}
        /\ call.updates[j].metric[3] = RewardKinds[k]}

\* C34: in each Rewards run, for the aggregate actual source total and the
\* aggregate actual target total, of the network and of the watched set alike,
\* exactly one of the positive and negative counters is incremented, by the
\* absolute value of the total: the positive one when the total is >= 0, the
\* negative one otherwise; no counter is incremented by a negative amount
C34_SignedTotalsGoToOneCounter ==
    Called("process_rewards") =>
        /\ \A scope \in {"net", "our"}, k \in {1, 2} :
            /\ Cardinality(SignedUpdates(scope, k)) <= 1
            /\ (IF scope = "net" THEN NetPassCounts ELSE OurPassCounts)
                   <=> Cardinality(SignedUpdates(scope, k)) = 1
            /\ \A j \in SignedUpdates(scope, k) :
                /\ call.updates[j].amount = abs(ActualTotal(scope, k))
                /\ call.updates[j].metric[2] =
                       IF ActualTotal(scope, k) >= 0 THEN "actual_pos" ELSE "actual_neg"
        /\ \A j \in DOMAIN call.updates :
            call.updates[j].op = "inc" => call.updates[j].amount >= 0

\* C34 witness: a run that completes with a source total of zero and a negative
\* target total for the network, and a positive source total for the watched
\* validators
C34_Witness ==
    /\ Called("process_rewards")
    /\ call.raised = "none"
    /\ OurPassCounts
    /\ ActualTotal("net", 1) = 0
    /\ ActualTotal("net", 2) < 0
    /\ ActualTotal("our", 1) > 0

\* C37, as claimed: the Rewards probe completes without error for every rewards
\* response: a validator with no row in total_rewards, or with no ideal-reward
\* row for its effective balance, is skipped, in both passes, and when no
\* validator can be classified no counter or gauge is updated.
\* (Stated for calls whose labels map is empty or labels every validator.)
C37_RewardsCompleteOnEveryResponse ==
    /\ Called("process_rewards")
    /\ DOMAIN call.our_labels \in {{}, AllPubkeys}
    =>  /\ call.raised = "none"
        /\ call.epoch >= 2 /\ NetClassifiable = {} => call.updates = <<>>

\* C35, as claimed: with a non-empty labels map, every pubkey that
\* MissedAttestations or DoubleMissedAttestations looks up in the labels map in
\* epoch e has an entry there, also when the watched set or the labels file
\* changed between the boundary of epoch e-1 and the boundary of epoch e (the
\* pubkeys come from the snapshot of epoch e-1, the labels from the load of
\* epoch e).
C35_LabelLookupsFindAnEntry ==
    Processed /\ Cardinality(DOMAIN our_labels) > 0 =>
        raised \notin {"process_missed_attestations.KeyError",
                       "process_double_missed_attestations.KeyError"}

\* C38, as claimed: if process ends with an error at some relay, the call has
\* changed neither bad_relay_count nor the MEV-boost counter: the increments
\* made for earlier relays are not left behind.
C38_FailedProcessLeavesMetricsAlone ==
    Called("process") /\ call.raised # "none" => relay_metrics = call.before

\* every relay answers the request, with one record at most
AtMostOneRecordEach ==
    \A u \in Range(relays.urls) : relays.payload_delivered[u].kind \in {"none", "one"}
\* the same call of process made with the other kind of labels map
OtherLabels == IF Cardinality(DOMAIN call.our_labels) = 0 THEN LabelsOf(AllPubkeys) ELSE <<>>
OtherCall ==
    Relays_process(call.slot, OtherLabels,
                   InitRelayMetrics(OtherLabels, call.before.bad_relay_count))

\* C39: for the same slot and the same relay responses, when every relay
\* returns at most one record and no request fails, process increments
\* bad_relay_count with a non-empty labels map if and only if it increments it
\* with an empty labels map
C39_BadRelayCountSameWithAndWithoutLabels ==
    Called("process") /\ AtMostOneRecordEach =>
        (relay_metrics.bad_relay_count = call.before.bad_relay_count + 1
            <=> OtherCall.metrics.bad_relay_count = call.before.bad_relay_count + 1)

\* C39 witness: with labels, two relays are asked and neither has a record; the
\* block is counted as of an unknown builder
C39_Witness ==
    /\ Called("process")
    /\ Cardinality(DOMAIN call.our_labels) > 0
    /\ Len(relays.urls) = 2
    /\ \A u \in Range(relays.urls) : relays.payload_delivered[u].kind = "none"
    /\ relay_metrics.bad_relay_count = call.before.bad_relay_count + 1
    /\ OtherCall.metrics.bad_relay_count = call.before.bad_relay_count + 1

\* C40: processing a slot that is not the first processed slot of its epoch
\* leaves the watched set, the labels map, the network window, the watched
\* window and the current snapshot of the active watched validators unchanged;
\* they change only in the epoch-boundary step
C40_EpochStateChangesAtTheBoundaryOnly ==
    [][/\ idx' = idx + 1
       /\ slot' >= 0
       /\ hist.first_slot # None
       /\ hist.first_slot < slot'
       /\ SlotInEpoch(slot') # 0
       => UNCHANGED <<our_pubkeys, our_labels, net_epoch2active_idx2val,
                      our_epoch2active_idx2val, our_active_idx2val>>]_vars

\* C40 witness: the last slot of an epoch has been processed, the files on
\* disk are no longer those that were loaded at the boundary, and the watched
\* set is still the one loaded there
C40_Witness ==
    /\ Processed
    /\ status = "running"
    /\ hist.first_slot < slot
    /\ SlotInEpoch(slot) = NB_SLOT_PER_EPOCH - 1
    /\ world.pubkeys_file[FilesEpoch(slot)] # world.pubkeys_file[Epoch(slot)]
    /\ our_pubkeys = world.pubkeys_file[Epoch(slot)]
    /\ our_labels = world.labels_file[Epoch(slot)]
    /\ our_labels # world.labels_file[FilesEpoch(slot)]

====
